---- MODULE Spec2Model ----
(***************************************************************************)
(* Model of the quantitative core of the Excel add-in:                     *)
(*   - engines/portfolio-engine.ts   (optimizePortfolio, randomWeights)    *)
(*   - engines/monte-carlo-engine.ts (generateSamples, runMonteCarlo,      *)
(*                                    computeStats, computeHistogram)      *)
(*   - randomNormal (Box-Muller) of the VaR engine                         *)
(*                                                                         *)
(* JavaScript numbers are modelled as extended fixed-point values: a       *)
(* finite value is an integer count of thousandths (Scale), and NaN and    *)
(* the two infinities are values of their own, with the IEEE-754 rules for *)
(* the operations the code uses.  Math.random() is a draw from UDraws, a   *)
(* finite subset of [0,1) that contains 0.                                 *)
(***************************************************************************)
EXTENDS Integers, Sequences, FiniteSets, TLC

\* ------------------------------------------------------------------------
\* Numbers
\* ------------------------------------------------------------------------

\* One unit of the fixed-point representation is 1/Scale.
Scale == 1000

Fin(x) == [k |-> "fin", v |-> x]
NaN == [k |-> "nan", v |-> 0]
PInf == [k |-> "inf", v |-> 1]
NInf == [k |-> "inf", v |-> -1]
\* The value of an out-of-range array read (JavaScript's undefined); every
\* arithmetic operation turns it into NaN.
Undef == [k |-> "undef", v |-> 0]

IsFin(a) == a.k = "fin"
IsInf(a) == a.k = "inf"
IsNaN(a) == a.k \in {"nan", "undef"}

Abs(x) == IF x < 0 THEN -x ELSE x
Sgn(x) == IF x < 0 THEN -1 ELSE IF x > 0 THEN 1 ELSE 0
Min2(x, y) == IF x < y THEN x ELSE y
Max2(x, y) == IF x > y THEN x ELSE y

\* num/den rounded to the nearest integer (den > 0), halves upwards.
Rnd(num, den) == (2 * num + den) \div (2 * den)

\* Integer square root: the largest r with r*r <= x.
RECURSIVE SqrtIter(_, _, _)
SqrtIter(x, lo, hi) ==
    IF lo >= hi THEN lo
    ELSE LET mid == (lo + hi + 1) \div 2
         IN IF mid * mid <= x THEN SqrtIter(x, mid, hi) ELSE SqrtIter(x, lo, mid - 1)
ISqrt(x) == SqrtIter(x, 0, Min2(x, 46340))

\* x * y / Scale rounded to the nearest unit (x, y >= 0), computed without
\* leaving the 32-bit integers: y is split into its whole and fractional part.
MulUnits(x, y) == x * (y \div Scale) + Rnd(x * (y % Scale), Scale)

FNeg(a) == IF IsNaN(a) THEN NaN ELSE [k |-> a.k, v |-> -a.v]

FAdd(a, b) ==
    IF IsNaN(a) \/ IsNaN(b) THEN NaN
    ELSE IF IsInf(a) /\ IsInf(b) THEN (IF a.v = b.v THEN a ELSE NaN)
    ELSE IF IsInf(a) THEN a
    ELSE IF IsInf(b) THEN b
    ELSE Fin(a.v + b.v)

FSub(a, b) == FAdd(a, FNeg(b))

FMul(a, b) ==
    IF IsNaN(a) \/ IsNaN(b) THEN NaN
    ELSE IF IsInf(a) \/ IsInf(b)
         THEN (IF a.v = 0 \/ b.v = 0 THEN NaN
               ELSE IF Sgn(a.v) = Sgn(b.v) THEN PInf ELSE NInf)
    ELSE Fin(Sgn(a.v) * Sgn(b.v) * MulUnits(Min2(Abs(a.v), Abs(b.v)), Max2(Abs(a.v), Abs(b.v))))

FDiv(a, b) ==
    IF IsNaN(a) \/ IsNaN(b) THEN NaN
    ELSE IF IsInf(a) /\ IsInf(b) THEN NaN
    ELSE IF IsInf(a) THEN (IF Sgn(a.v) * Sgn(b.v) < 0 THEN NInf ELSE PInf)
    ELSE IF IsInf(b) THEN Fin(0)
    ELSE IF b.v = 0
         THEN (IF a.v = 0 THEN NaN ELSE IF a.v > 0 THEN PInf ELSE NInf)
    ELSE Fin(Sgn(b.v) * Rnd(a.v * Scale, Abs(b.v)))

FSqrt(a) ==
    IF IsNaN(a) THEN NaN
    ELSE IF IsInf(a) THEN (IF a.v > 0 THEN PInf ELSE NaN)
    ELSE IF a.v < 0 THEN NaN
    ELSE Fin(ISqrt(a.v * Scale))

FAbs(a) == IF IsNaN(a) THEN NaN ELSE [k |-> a.k, v |-> Abs(a.v)]

\* a < b, a <= b, a = b as JavaScript compares numbers: false when NaN is involved.
FLt(a, b) ==
    /\ ~IsNaN(a) /\ ~IsNaN(b)
    /\ IF IsInf(a) /\ IsInf(b) THEN a.v < b.v
       ELSE IF IsInf(a) THEN a.v < 0
       ELSE IF IsInf(b) THEN b.v > 0
       ELSE a.v < b.v
FEq(a, b) == ~IsNaN(a) /\ ~IsNaN(b) /\ a.k = b.k /\ a.v = b.v
FLe(a, b) == FLt(a, b) \/ FEq(a, b)
FGt(a, b) == FLt(b, a)
FGe(a, b) == FLe(b, a)

\* Math.max(0, x): NaN stays NaN.
FMax0(a) == IF IsNaN(a) THEN NaN ELSE IF FLt(a, Fin(0)) THEN Fin(0) ELSE a

\* Math.log on a finite x > 0 (in units of 1/Scale): x is brought into [1,2)
\* by doubling or halving, then ln x = 2*atanh((x-1)/(x+1)) + k*ln 2.
Ln2 == 693
RECURSIVE LnPos(_, _)
LnPos(x, k) ==
    IF x >= 2 * Scale THEN LnPos(x \div 2, k + 1)
    ELSE IF x < Scale THEN LnPos(x * 2, k - 1)
    ELSE LET y == Rnd((x - Scale) * Scale, x + Scale)
             y2 == Rnd(y * y, Scale)
             y3 == Rnd(y * y2, Scale)
             y5 == Rnd(y3 * y2, Scale)
             y7 == Rnd(y5 * y2, Scale)
         IN 2 * y + Rnd(2 * y3, 3) + Rnd(2 * y5, 5) + Rnd(2 * y7, 7) + k * Ln2

FLog(a) ==
    IF IsNaN(a) THEN NaN
    ELSE IF IsInf(a) THEN (IF a.v > 0 THEN PInf ELSE NaN)
    ELSE IF a.v < 0 THEN NaN
    ELSE IF a.v = 0 THEN NInf
    ELSE Fin(LnPos(a.v, 0))


\* Math.exp on a finite x: e^x = 2^k * e^r with r = x - k*ln 2, |r| <= ln(2)/2.
RECURSIVE Pow2(_)
Pow2(k) == IF k <= 0 THEN 1 ELSE 2 * Pow2(k - 1)
ExpUnits(x) ==
    LET k == Rnd(x, Ln2)
        r == x - k * Ln2
        r2u == Rnd(r * r, Scale)
        r3u == Rnd(r2u * r, Scale)
        r4u == Rnd(r3u * r, Scale)
        er == Scale + r + Rnd(r2u, 2) + Rnd(r3u, 6) + Rnd(r4u, 24)
    IN IF k >= 0 THEN er * Pow2(k) ELSE Rnd(er, Pow2(-k))

FExp(a) ==
    IF IsNaN(a) THEN NaN
    ELSE IF IsInf(a) THEN (IF a.v > 0 THEN PInf ELSE Fin(0))
    ELSE Fin(ExpUnits(a.v))

\* Math.pow(u, e) for a base 0 <= u < 1.
FPow(u, e) ==
    IF IsNaN(u) \/ IsNaN(e) THEN NaN
    ELSE IF IsFin(e) /\ e.v = 0 THEN Fin(Scale)
    ELSE IF u.v = 0 THEN (IF e.v > 0 THEN Fin(0) ELSE PInf)
    ELSE IF IsInf(e) THEN (IF e.v > 0 THEN Fin(0) ELSE PInf)
    ELSE FExp(FMul(e, FLog(u)))

\* Math.cos(2 * Math.PI * v) for 0 <= v < 1: the angle is folded into the
\* first quadrant, where the Taylor polynomial of degree 8 is used.
TwoPi == 6283
CosQuadrant(f) ==
    LET t == Rnd(TwoPi * f, Scale)
        t2 == Rnd(t * t, Scale)
        t4 == Rnd(t2 * t2, Scale)
        t6 == Rnd(t4 * t2, Scale)
        t8 == Rnd(t6 * t2, Scale)
    IN Scale - Rnd(t2, 2) + Rnd(t4, 24) - Rnd(t6, 720) + Rnd(t8, 40320)
Cos2Pi(v) ==
    LET f == IF 2 * v > Scale THEN Scale - v ELSE v
    IN IF 4 * f > Scale THEN -CosQuadrant(Scale \div 2 - f) ELSE CosQuadrant(f)

\* Math.floor(a / b), from the exact quotient.
FFloorDiv(a, b) ==
    LET q == FDiv(a, b)
    IN IF ~IsFin(q) THEN q
       ELSE IF b.v > 0 THEN Fin((a.v \div b.v) * Scale)
       ELSE Fin(((-a.v) \div (-b.v)) * Scale)

\* Math.round(v * 10^d) / 10^d for d = 2, 4, 6 (r2, r4, r6).  Math.round rounds
\* halves upwards; NaN and the infinities pass through.  A finite value is a
\* multiple of 1/Scale: rounding it to a finer grid leaves it as it is.
RoundTo(a, unitsPerOne) ==
    IF ~IsFin(a) THEN (IF IsNaN(a) THEN NaN ELSE a)
    ELSE IF unitsPerOne % Scale = 0 THEN a
    ELSE Fin(Rnd(Rnd(a.v * unitsPerOne, Scale) * Scale, unitsPerOne))
r2(a) == RoundTo(a, 100)
r4(a) == RoundTo(a, 10000)
r6(a) == RoundTo(a, 1000000)

\* Folding a sequence of numbers from the left, as Array.prototype.reduce does.
RECURSIVE FSumFrom(_, _, _)
FSumFrom(acc, xs, i) ==
    IF i > Len(xs) THEN acc ELSE FSumFrom(FAdd(acc, xs[i]), xs, i + 1)
FSum(xs) == FSumFrom(Fin(0), xs, 1)

\* xs[i], or undefined when i is outside the array.
At(xs, i) == IF i \in 1..Len(xs) THEN xs[i] ELSE Undef

\* a ?? d
Nullish(a, d) == IF a.k = "undef" THEN d ELSE a

\* ------------------------------------------------------------------------
\* The random source
\* ------------------------------------------------------------------------

\* The values Math.random() can return, in units of 1/Scale: a finite sample
\* of [0, 1) that includes 0.
UDraws == {0, 250, 500, 750}

\* All sequences of n draws.
DrawSeqs(n) == [1..n -> UDraws]

\* ------------------------------------------------------------------------
\* Portfolio optimizer (portfolio-engine.ts)
\* ------------------------------------------------------------------------

\* Model bounds standing for the iteration counts 10000 (n <= 3) and 30000.
IterSmall == 2
IterLarge == 3

Asset(r, v) == [expectedReturn |-> Fin(r), volatility |-> Fin(v)]
Row(xs) == [i \in 1..Len(xs) |-> Fin(xs[i])]
\* A PortfolioInput; numFrontierPoints is a count k (as Fin(k * Scale)) or Undef
\* when the caller leaves it out.
PInputWithPoints(as, corr, rf, points) ==
    [assets |-> as, correlationMatrix |-> corr, riskFreeRate |-> Fin(rf),
     numFrontierPoints |-> points]
\* A PortfolioInput that asks for no frontier point.
PInput(as, corr, rf) == PInputWithPoints(as, corr, rf, Fin(0))

\* The inputs optimizePortfolio is called with.
PortfolioInputs ==
    LET a == Asset(100, 200)
        b == Asset(150, 250)
        z == Asset(40, 0)
    IN { PInput(<< >>, << >>, 40),
         PInput(<<a>>, <<Row(<<1000>>)>>, 40),
         \* two equal assets, uncorrelated and perfectly correlated
         PInput(<<a, a>>, <<Row(<<1000, 0>>), Row(<<0, 1000>>)>>, 40),
         PInput(<<a, a>>, <<Row(<<1000, 1000>>), Row(<<1000, 1000>>)>>, 40),
         PInput(<<a, b>>, <<Row(<<1000, 300>>), Row(<<300, 1000>>)>>, 40),
         \* a riskless asset
         PInput(<<a, z>>, <<Row(<<1000, 0>>), Row(<<0, 1000>>)>>, 40),
         \* two riskless assets; two equal assets in perfect opposition
         PInput(<<Asset(60, 0), z>>, <<Row(<<1000, 0>>), Row(<<0, 1000>>)>>, 40),
         PInput(<<a, a>>, <<Row(<<1000, -1000>>), Row(<<-1000, 1000>>)>>, 40),
         \* wrong number of rows
         PInput(<<a, b>>, <<Row(<<1000, 300>>)>>, 40),
         PInput(<<a, b>>, <<Row(<<1000, 300>>), Row(<<300, 1000>>), Row(<<0, 0>>)>>, 40),
         \* right number of rows, a row of the wrong length
         PInput(<<a, b>>, <<Row(<<1000, 300>>), Row(<<300>>)>>, 40),
         PInput(<<a, b>>, <<Row(<<1000, 300, 0>>), Row(<<300, 1000>>)>>, 40),
         \* the three-asset scenario
         PInput(<<Asset(100, 150), Asset(150, 250), Asset(80, 100)>>,
                <<Row(<<1000, 300, 300>>), Row(<<300, 1000, 300>>), Row(<<300, 300, 1000>>)>>, 40),
         \* a frontier of one point
         PInputWithPoints(<<a, b>>, <<Row(<<1000, 300>>), Row(<<300, 1000>>)>>, 40, Fin(Scale)) }

\* The inputs whose frontier loop is followed draw by draw: frontiers of one,
\* two and three points and of the default number of points.
FrontierInputs ==
    { PInputWithPoints(<<Asset(100, 200), Asset(150, 250)>>,
                       <<Row(<<1000, 300>>), Row(<<300, 1000>>)>>, 40, Fin(Scale)),
      PInputWithPoints(<<Asset(30, 200), Asset(40, 250)>>,
                       <<Row(<<1000, 300>>), Row(<<300, 1000>>)>>, 40, Fin(2 * Scale)),
      PInputWithPoints(<<Asset(100, 200), Asset(150, 250)>>,
                       <<Row(<<1000, 300>>), Row(<<300, 1000>>)>>, 40, Fin(3 * Scale)),
      PInputWithPoints(<<Asset(500, 200), Asset(500, 200)>>,
                       <<Row(<<1000, 1000>>), Row(<<1000, 1000>>)>>, 40, Undef) }

NoAllocation == [weights |-> << >>, expectedReturn |-> NaN, volatility |-> NaN, sharpeRatio |-> NaN]
NoResult ==
    [minVariancePortfolio |-> NoAllocation, maxSharpePortfolio |-> NoAllocation,
     equalWeightPortfolio |-> NoAllocation, efficientFrontier |-> << >>,
     covarianceMatrix |-> << >>]

VARIABLES
    pIn,            \* the argument of the optimizePortfolio call
    pPc,            \* "call", "search", "done" (returned) or "error" (threw)
    pIter,          \* iter
    pW,             \* w, the candidate of the last iteration
    bestMinVar,     \* [weights, var]
    bestMaxSharpe,  \* [weights, sharpe]
    pResult,        \* the returned PortfolioResult
    fI,             \* i, the index of the frontier target
    fJ,             \* j, the number of draws made for the target
    bestVol,        \* bestVol of the target
    frontier,       \* frontier, the points pushed so far
    fSeen,          \* history: the return and volatility of the draws made for the target
    pSeen           \* history: the candidates w the search has evaluated

pvars ==
    <<pIn, pPc, pIter, pW, bestMinVar, bestMaxSharpe, pResult, fI, fJ, bestVol, frontier, fSeen, pSeen>>
fvars == <<fI, fJ, bestVol, frontier, fSeen>>

\* covMatrix[i][j] = vol_i * vol_j * corr[i][j]; corr[i][j] is undefined
\* outside the matrix.
CovMatrix(in) ==
    LET n == Len(in.assets)
    IN [i \in 1..n |-> [j \in 1..n |->
          FMul(FMul(in.assets[i].volatility, in.assets[j].volatility),
               At(in.correlationMatrix[i], j))]]

\* randomWeights(n) for the n draws us: raw_i = -ln(u_i), normalised by their sum.
randomWeights(n, us) ==
    LET raw == [i \in 1..n |-> FNeg(FLog(Fin(us[i])))]
        sum == FSum(raw)
    IN [i \in 1..n |-> FDiv(raw[i], sum)]

portfolioReturn(w, returns) ==
    FSum([i \in 1..Len(w) |-> FMul(w[i], returns[i])])

RECURSIVE VarianceFrom(_, _, _, _)
VarianceFrom(acc, w, cov, idx) ==
    LET n == Len(w)
        i == ((idx - 1) \div n) + 1
        j == ((idx - 1) % n) + 1
    IN IF idx > n * n THEN acc
       ELSE VarianceFrom(FAdd(acc, FMul(FMul(w[i], w[j]), cov[i][j])), w, cov, idx + 1)

portfolioVol(w, cov) == FSqrt(FMax0(VarianceFrom(Fin(0), w, cov, 1)))

Returns(in) == [i \in 1..Len(in.assets) |-> in.assets[i].expectedReturn]

buildAllocationUnguarded(in, w, cov) ==
    LET ret == portfolioReturn(w, Returns(in))
        vol == portfolioVol(w, cov)
    IN [weights |-> [i \in 1..Len(in.assets) |-> r4(w[i])],
        expectedReturn |-> r4(ret),
        volatility |-> r4(vol),
        sharpeRatio |-> r4(FDiv(FSub(ret, in.riskFreeRate), vol))]
buildAllocation(in, w, cov) ==
    LET ret == portfolioReturn(w, Returns(in))
        vol == portfolioVol(w, cov)
    IN [weights |-> [i \in 1..Len(in.assets) |-> r4(w[i])],
        expectedReturn |-> r4(ret),
        volatility |-> r4(vol),
        sharpeRatio |-> IF FGt(vol, Fin(0))
                        THEN r4(FDiv(FSub(ret, in.riskFreeRate), vol))
                        ELSE Fin(0)]

\* new Array(n).fill(1 / n)
EqWeights(n) == [i \in 1..n |-> FDiv(Fin(Scale), Fin(n * Scale))]

Iterations(n) == IF n <= 3 THEN IterSmall ELSE IterLarge

\* Lines 35-40: the argument checks.
InputRejected(in) ==
    \/ Len(in.assets) < 2
    \/ Len(in.correlationMatrix) # Len(in.assets)

\* Lines 35-62: the checks, the covariance matrix and the seeds of the search.
OptimizeEnter ==
    /\ pPc = "call"
    /\ IF InputRejected(pIn)
       THEN /\ pPc' = "error"
            /\ UNCHANGED <<bestMinVar, bestMaxSharpe>>
       ELSE /\ pPc' = "search"
            /\ bestMinVar' = [weights |-> EqWeights(Len(pIn.assets)), var |-> PInf]
            /\ bestMaxSharpe' = [weights |-> EqWeights(Len(pIn.assets)), sharpe |-> NInf]
    /\ UNCHANGED <<pIn, pIter, pW, pResult, fvars, pSeen>>

\* The iteration with "<=" and ">=" in place of "<" and ">" at lines 70 and
\* 73: a candidate that only equals the retained one replaces it.
SearchStepReplacingTies ==
    /\ pPc = "search"
    /\ pIter < Iterations(Len(pIn.assets))
    /\ \E us \in DrawSeqs(Len(pIn.assets)) :
         LET n == Len(pIn.assets)
             cov == CovMatrix(pIn)
             w == randomWeights(n, us)
             ret == portfolioReturn(w, Returns(pIn))
             vol == portfolioVol(w, cov)
             sharpe == FDiv(FSub(ret, pIn.riskFreeRate), vol)
         IN /\ pW' = w
            /\ pSeen' = pSeen \cup {w}
            /\ bestMinVar' = IF FLe(vol, bestMinVar.var)
                             THEN [weights |-> w, var |-> vol] ELSE bestMinVar
            /\ bestMaxSharpe' = IF FGe(sharpe, bestMaxSharpe.sharpe)
                                THEN [weights |-> w, sharpe |-> sharpe] ELSE bestMaxSharpe
    /\ pIter' = pIter + 1
    /\ UNCHANGED <<pIn, pPc, pResult, fvars>>

\* Lines 64-76: one iteration of the search.
SearchStep ==
    /\ pPc = "search"
    /\ pIter < Iterations(Len(pIn.assets))
    /\ \E us \in DrawSeqs(Len(pIn.assets)) :
         LET n == Len(pIn.assets)
             cov == CovMatrix(pIn)
             w == randomWeights(n, us)
             ret == portfolioReturn(w, Returns(pIn))
             vol == portfolioVol(w, cov)
             sharpe == FDiv(FSub(ret, pIn.riskFreeRate), vol)
         IN /\ pW' = w
            /\ pSeen' = pSeen \cup {w}
            /\ bestMinVar' = IF FLt(vol, bestMinVar.var)
                             THEN [weights |-> w, var |-> vol] ELSE bestMinVar
            /\ bestMaxSharpe' = IF FGt(sharpe, bestMaxSharpe.sharpe)
                                THEN [weights |-> w, sharpe |-> sharpe] ELSE bestMaxSharpe
    /\ pIter' = pIter + 1
    /\ UNCHANGED <<pIn, pPc, pResult, fvars>>

\* ---- The efficient frontier ----

\* The draws made for each target (3000 in the code).
FrontierDraws == 2

\* Line 36: numFrontierPoints = 20 when the input leaves it out.
DefaultFrontierPoints == 20
FrontierPoints(in) == Nullish(in.numFrontierPoints, Fin(DefaultFrontierPoints * Scale)).v \div Scale

\* Math.min(...xs) and Math.max(...xs).
RECURSIVE MinFrom(_, _, _)
MinFrom(acc, xs, k) ==
    IF k > Len(xs) THEN acc
    ELSE MinFrom(IF IsNaN(acc) \/ IsNaN(xs[k]) THEN NaN
                 ELSE IF FLt(xs[k], acc) THEN xs[k] ELSE acc, xs, k + 1)
RECURSIVE MaxFrom(_, _, _)
MaxFrom(acc, xs, k) ==
    IF k > Len(xs) THEN acc
    ELSE MaxFrom(IF IsNaN(acc) \/ IsNaN(xs[k]) THEN NaN
                 ELSE IF FGt(xs[k], acc) THEN xs[k] ELSE acc, xs, k + 1)

\* Lines 82-83.
MinRetFactor == 500
MaxRetFactor == 1200
MinRet(in) == FMul(MinFrom(PInf, Returns(in), 1), Fin(MinRetFactor))
MaxRet(in) == FMul(MaxFrom(NInf, Returns(in), 1), Fin(MaxRetFactor))

\* Line 87: the target return of frontier point i (from 0).
TargetRet(in, i) ==
    FAdd(MinRet(in),
         FDiv(FMul(FSub(MaxRet(in), MinRet(in)), Fin(i * Scale)),
              Fin((FrontierPoints(in) - 1) * Scale)))

\* Line 93: a draw whose return is further than this from the target is skipped.
FrontierTolerance == 20
SkippedNever(ret, target) == FALSE
Skipped(ret, target) == FGt(FAbs(FSub(ret, target)), Fin(FrontierTolerance))

\* The search loop is over and the frontier loop is at target i = fI.
AtFrontier ==
    /\ pPc = "search"
    /\ pIter >= Iterations(Len(pIn.assets))

\* Lines 90-95: one draw for the target.
FrontierDraw ==
    /\ AtFrontier
    /\ fI < FrontierPoints(pIn)
    /\ fJ < FrontierDraws
    /\ \E us \in DrawSeqs(Len(pIn.assets)) :
         LET w == randomWeights(Len(pIn.assets), us)
             ret == portfolioReturn(w, Returns(pIn))
             vol == portfolioVol(w, CovMatrix(pIn))
         IN /\ bestVol' = IF ~Skipped(ret, TargetRet(pIn, fI)) /\ FLt(vol, bestVol)
                          THEN vol ELSE bestVol
            /\ fSeen' = fSeen \cup {[ret |-> ret, vol |-> vol]}
    /\ fJ' = fJ + 1
    /\ UNCHANGED <<pIn, pPc, pIter, pW, bestMinVar, bestMaxSharpe, pResult, fI, frontier, pSeen>>

\* Lines 97-99 and 86-88: the draws of the target are over; its point is pushed
\* if a draw was kept, and the loop goes on to the next target.
FrontierPush ==
    /\ AtFrontier
    /\ fI < FrontierPoints(pIn)
    /\ fJ >= FrontierDraws
    /\ frontier' = IF FLt(bestVol, PInf)
                   THEN Append(frontier, [ret |-> r4(TargetRet(pIn, fI)), risk |-> r4(bestVol)])
                   ELSE frontier
    /\ fI' = fI + 1
    /\ fJ' = 0
    /\ bestVol' = PInf
    /\ fSeen' = {}
    /\ UNCHANGED <<pIn, pPc, pIter, pW, bestMinVar, bestMaxSharpe, pResult, pSeen>>

\* Lines 78-79 and 102-108: the allocations of the retained candidates, and
\* the return.
SearchReturn ==
    /\ AtFrontier
    /\ fI >= FrontierPoints(pIn)
    /\ LET cov == CovMatrix(pIn)
           n == Len(pIn.assets)
       IN pResult' =
            [minVariancePortfolio |-> buildAllocation(pIn, bestMinVar.weights, cov),
             maxSharpePortfolio |-> buildAllocation(pIn, bestMaxSharpe.weights, cov),
             equalWeightPortfolio |-> buildAllocation(pIn, EqWeights(n), cov),
             efficientFrontier |-> frontier,
             covarianceMatrix |-> [i \in 1..n |-> [j \in 1..n |-> r6(cov[i][j])]]]
    /\ pPc' = "done"
    /\ UNCHANGED <<pIn, pIter, pW, bestMinVar, bestMaxSharpe, fvars, pSeen>>


\* ------------------------------------------------------------------------
\* Box-Muller normal deviates (randomNormal)
\* ------------------------------------------------------------------------

\* The values of Math.random() sampled for the Box-Muller transform.
NDraws == {0, 31, 500}

\* "while (u === 0) u = Math.random()": the values the loop can end with.
BoxMullerDrawsUnguarded == NDraws
BoxMullerDraws == NDraws \ {0}

\* randomNormal(mean, stdDev) for the two draws u and v the loops ended with.
randomNormal(mean, stdDev, u, v) ==
    LET z == FMul(FSqrt(FMul(Fin(-2 * Scale), FLog(Fin(u)))), Fin(Cos2Pi(v)))
    IN FAdd(FMul(z, stdDev), mean)

\* ------------------------------------------------------------------------
\* Monte Carlo engine (monte-carlo-engine.ts)
\* ------------------------------------------------------------------------

\* The largest numSimulations of a batch.
MaxSim == 3

Param(name, dist, mean, stdDev, minVal, modeVal, maxVal) ==
    [name |-> name, distribution |-> dist, mean |-> mean, stdDev |-> stdDev,
     minVal |-> minVal, modeVal |-> modeVal, maxVal |-> maxVal]
Normal(name, mean, stdDev) == Param(name, "normal", mean, stdDev, Undef, Undef, Undef)
LogNormal(name, mean, stdDev) == Param(name, "lognormal", mean, stdDev, Undef, Undef, Undef)
Uniform(name, minVal, maxVal) == Param(name, "uniform", Undef, Undef, minVal, Undef, maxVal)
Triangular(name, minVal, modeVal, maxVal) ==
    Param(name, "triangular", Undef, Undef, minVal, modeVal, maxVal)
Pert(name, minVal, modeVal, maxVal) ==
    Param(name, "pert", Undef, Undef, minVal, modeVal, maxVal)

MCInput(n, params, formula, rate) ==
    [numSimulations |-> n, parameters |-> params, formula |-> formula, discountRate |-> rate]

\* The largest numSimulations of a batch with a PERT parameter.
MaxSimPert == 1

\* Parameters of single-parameter batches: normal, lognormal, uniform, triangular.
PlainParams ==
    { Normal("a", Fin(100000), Fin(0)),
      Normal("a", Fin(1004), Fin(0)),
      Normal("a", Undef, Undef),
      LogNormal("a", Undef, Undef),
      Uniform("a", Fin(-1000), Fin(1000)),
      Uniform("a", Undef, Undef),
      Triangular("a", Undef, Undef, Undef),
      Triangular("a", Fin(0), Fin(0), Fin(4000)),
      Triangular("a", Fin(1000), Fin(3000), Fin(3000)),
      \* mode above max; a zero-width range
      Triangular("a", Fin(0), Fin(5000), Fin(4000)),
      Triangular("a", Fin(1000), Fin(1000), Fin(1000)) }

\* PERT parameters with min <= mode <= max and min < max.
PertParams ==
    { Pert("a", Fin(0), Fin(1000), Fin(4000)),
      Pert("a", Fin(2000), Fin(2000), Fin(3000)),
      Pert("a", Undef, Undef, Undef) }

\* PERT parameters outside that: mode below min (alpha = 0.5, alpha = -1) and
\* a zero-width range.
OddPertParams ==
    { Pert("a", Fin(0), Fin(-500), Fin(4000)),
      Pert("a", Fin(0), Fin(-2000), Fin(4000)),
      Pert("a", Fin(1000), Fin(1000), Fin(1000)) }

\* The names of the two parameters of a batch, in declaration order: plain
\* names, names that are array indices, and a repeated name.
PairNames == {<<"a", "b">>, <<"2", "1">>, <<"a", "a">>}

\* The batches runMonteCarlo is called with.
MCInputs ==
    { MCInput(n, <<p>>, "none", Undef) : n \in -1..MaxSim, p \in PlainParams }
    \cup
    { MCInput(n, <<p>>, "none", Undef) : n \in 0..MaxSimPert, p \in PertParams }
    \cup
    { MCInput(1, <<p>>, "none", Undef) : p \in OddPertParams }
    \cup
    { MCInput(n, <<Uniform(names[1], Fin(-1000), Fin(1000)), Normal(names[2], Fin(1000), Fin(0))>>, f, r) :
        n \in 1..2, f \in {"none", "sum", "product", "npv"}, r \in {Undef, Fin(100)},
        names \in PairNames }
    \cup
    \* three parameters, the third under the name of the first
    { MCInput(1, <<Uniform("a", Fin(-1000), Fin(1000)), Normal("b", Fin(1000), Fin(0)),
                   Uniform("a", Fin(2000), Fin(4000))>>, f, Fin(100)) :
        f \in {"sum", "product", "npv"} }

NoStats ==
    [numSimulations |-> 0, mean |-> NaN, stdDev |-> NaN, coefficientOfVariation |-> NaN,
     minimum |-> NaN, maximum |-> NaN, range |-> NaN,
     percentile5 |-> NaN, percentile10 |-> NaN, percentile25 |-> NaN, median |-> NaN,
     percentile75 |-> NaN, percentile90 |-> NaN, percentile95 |-> NaN,
     probNegative |-> NaN, probPositive |-> NaN]
NoHistogram == [bins |-> << >>, frequencies |-> << >>, binWidth |-> NaN]

VARIABLES
    mIn,         \* the argument of the runMonteCarlo call
    mPc,         \* "sampling", "done" (returned) or "error" (threw)
    mP,          \* position in input.parameters of the parameter being sampled
    samples,     \* generateSamples: the samples pushed so far
    gPc,         \* betaRandom/gammaRandom: "idle", "enter", "loop" or "unwind"
    gWhich,      \* which gamma variate of betaRandom is being drawn: "x" or "y"
    gShape,      \* gammaRandom: shape of the innermost call
    gPending,    \* gammaRandom: shapes of the calls waiting for their recursive call
    gVal,        \* gammaRandom: the value returned by the innermost call
    gX,          \* betaRandom: x
    allSamples,  \* the object allSamples, as its (key, value) pairs in key order
    drawn,       \* history: the sample vector generateSamples returned for each declared parameter
    results,     \* results, once combined and sorted
    mStats,      \* the returned stats
    mHist        \* the returned histogram

mvars == <<mIn, mPc, mP, samples, gPc, gWhich, gShape, gPending, gVal, gX,
           allSamples, drawn, results, mStats, mHist>>
gvars == <<gPc, gWhich, gShape, gPending, gVal, gX>>

\* The parameter generateSamples is working on.
CurParam == mIn.parameters[mP]

\* generateSamples is inside one of its "for (let i = 0; i < n; i++)" loops for
\* a parameter of the given distribution, before an iteration.
InSampleLoopOffByOne(dist) ==
    /\ mPc = "sampling"
    /\ mP <= Len(mIn.parameters)
    /\ gPc = "idle"
    /\ CurParam.distribution = dist
    /\ Len(samples) <= mIn.numSimulations
InSampleLoop(dist) ==
    /\ mPc = "sampling"
    /\ mP <= Len(mIn.parameters)
    /\ gPc = "idle"
    /\ CurParam.distribution = dist
    /\ Len(samples) < mIn.numSimulations

\* Line 56.
SampleNormal ==
    /\ InSampleLoop("normal")
    /\ \E u \in BoxMullerDraws, v \in BoxMullerDraws :
         samples' = Append(samples,
             randomNormal(Nullish(CurParam.mean, Fin(0)), Nullish(CurParam.stdDev, Fin(Scale)), u, v))
    /\ UNCHANGED <<mIn, mPc, mP, gvars, allSamples, drawn, results, mStats, mHist>>

\* Lines 59-63: the parameters of the underlying normal distribution.
LogNormalMu(param) ==
    LET m == Nullish(param.mean, Fin(Scale))
        s == Nullish(param.stdDev, Fin(Scale \div 2))
        sigmaSq == FLog(FAdd(Fin(Scale), FMul(FDiv(s, m), FDiv(s, m))))
    IN FSub(FLog(m), FMul(Fin(Scale \div 2), sigmaSq))
LogNormalSigma(param) ==
    LET m == Nullish(param.mean, Fin(Scale))
        s == Nullish(param.stdDev, Fin(Scale \div 2))
    IN FSqrt(FLog(FAdd(Fin(Scale), FMul(FDiv(s, m), FDiv(s, m)))))

\* Line 64.
SampleLogNormal ==
    /\ InSampleLoop("lognormal")
    /\ \E u \in BoxMullerDraws, v \in BoxMullerDraws :
         samples' = Append(samples,
             FExp(randomNormal(LogNormalMu(CurParam), LogNormalSigma(CurParam), u, v)))
    /\ UNCHANGED <<mIn, mPc, mP, gvars, allSamples, drawn, results, mStats, mHist>>

\* Line 69.
UniformSample(param, u) ==
    LET lo == Nullish(param.minVal, Fin(0))
        hi == Nullish(param.maxVal, Fin(Scale))
    IN FAdd(lo, FMul(Fin(u), FSub(hi, lo)))

SampleUniform ==
    /\ InSampleLoop("uniform")
    /\ \E u \in UDraws : samples' = Append(samples, UniformSample(CurParam, u))
    /\ UNCHANGED <<mIn, mPc, mP, gvars, allSamples, drawn, results, mStats, mHist>>

\* Lines 93-101, for the draw u.
triangularRandom(min, mode, max, u) ==
    LET fc == FDiv(FSub(mode, min), FSub(max, min))
    IN IF FLt(Fin(u), fc)
       THEN FAdd(min, FSqrt(FMul(FMul(Fin(u), FSub(max, min)), FSub(mode, min))))
       ELSE FSub(max, FSqrt(FMul(FMul(FSub(Fin(Scale), Fin(u)), FSub(max, min)), FSub(max, mode))))

\* Line 74.
SampleTriangular ==
    /\ InSampleLoop("triangular")
    /\ \E u \in UDraws :
         samples' = Append(samples,
             triangularRandom(Nullish(CurParam.minVal, Fin(0)),
                              Nullish(CurParam.modeVal, Fin(Scale \div 2)),
                              Nullish(CurParam.maxVal, Fin(Scale)), u))
    /\ UNCHANGED <<mIn, mPc, mP, gvars, allSamples, drawn, results, mStats, mHist>>

\* Lines 78-83: the shape parameters of the PERT distribution.
PertLambda == 4
PertMin(param) == Nullish(param.minVal, Fin(0))
PertMode(param) == Nullish(param.modeVal, Fin(Scale \div 2))
PertMax(param) == Nullish(param.maxVal, Fin(Scale))
PertAlpha(param) ==
    FAdd(Fin(Scale),
         FDiv(FMul(Fin(PertLambda * Scale), FSub(PertMode(param), PertMin(param))),
              FSub(PertMax(param), PertMin(param))))
PertBeta(param) ==
    FAdd(Fin(Scale),
         FDiv(FMul(Fin(PertLambda * Scale), FSub(PertMax(param), PertMode(param))),
              FSub(PertMax(param), PertMin(param))))

\* Lines 85 and 106: an iteration of the PERT loop calls betaRandom, which
\* calls gammaRandom(alpha).
PertBegin ==
    /\ InSampleLoop("pert")
    /\ gPc' = "enter"
    /\ gWhich' = "x"
    /\ gShape' = PertAlpha(CurParam)
    /\ gPending' = << >>
    /\ UNCHANGED <<mIn, mPc, mP, samples, gVal, gX, allSamples, drawn, results, mStats, mHist>>

\* Lines 113-115: shape < 1, the call recurses with shape + 1.
GammaRecurse ==
    /\ mPc = "sampling" /\ gPc = "enter"
    /\ FLt(gShape, Fin(Scale))
    /\ gPending' = Append(gPending, gShape)
    /\ gShape' = FAdd(gShape, Fin(Scale))
    /\ UNCHANGED <<mIn, mPc, mP, samples, gPc, gWhich, gVal, gX, allSamples, drawn, results, mStats, mHist>>

\* Lines 116-118: otherwise the call enters the rejection loop.
GammaBody ==
    /\ mPc = "sampling" /\ gPc = "enter"
    /\ ~FLt(gShape, Fin(Scale))
    /\ gPc' = "loop"
    /\ UNCHANGED <<mIn, mPc, mP, samples, gWhich, gShape, gPending, gVal, gX, allSamples, drawn, results, mStats, mHist>>

GammaD(shape) == FSub(shape, FDiv(Fin(Scale), Fin(3 * Scale)))
GammaC(shape) == FDiv(Fin(Scale), FSqrt(FMul(Fin(9 * Scale), GammaD(shape))))
\* v = 1 + c * x
GammaV(shape, x) == FAdd(Fin(Scale), FMul(GammaC(shape), x))
\* v * v * v
Cube(v) == FMul(FMul(v, v), v)
\* d * v, the value returned
GammaValue(shape, x) == FMul(GammaD(shape), Cube(GammaV(shape, x)))
\* 0.0331
SqueezeCoeff == 33
\* Tests that accept no draw.
GammaAcceptsNever(shape, x, u) == FALSE
\* Lines 126-127: the two acceptance tests.
GammaAccepts(shape, x, u) ==
    LET v == Cube(GammaV(shape, x))
        d == GammaD(shape)
    IN \/ FLt(Fin(u), FSub(Fin(Scale), FMul(FMul(Fin(SqueezeCoeff), FMul(x, x)), FMul(x, x))))
       \/ FLt(FLog(Fin(u)),
              FAdd(FMul(FMul(Fin(Scale \div 2), x), x),
                   FMul(d, FAdd(FSub(Fin(Scale), v), FLog(v)))))

\* A standard normal deviate, randomNormal().
StdNormals == { randomNormal(Fin(0), Fin(Scale), u, v) : u \in BoxMullerDraws, v \in BoxMullerDraws }

\* Lines 120-127: some draw of x and u passes the inner loop and a test.
CanAccept ==
    \E x \in StdNormals, u \in UDraws :
        ~FLe(GammaV(gShape, x), Fin(0)) /\ GammaAccepts(gShape, x, u)

\* Lines 120-123: v <= 0, the inner loop draws x again.
GammaRedraw ==
    /\ mPc = "sampling" /\ gPc = "loop"
    /\ \E x \in StdNormals : FLe(GammaV(gShape, x), Fin(0))
    /\ UNCHANGED mvars

\* Lines 125-128: neither test accepts, the outer loop starts over.
GammaReject ==
    /\ mPc = "sampling" /\ gPc = "loop"
    /\ \E x \in StdNormals, u \in UDraws :
         /\ ~FLe(GammaV(gShape, x), Fin(0))
         /\ ~GammaAccepts(gShape, x, u)
    /\ UNCHANGED mvars

\* Lines 126-127: a test accepts and the call returns d * v.
GammaAccept ==
    /\ mPc = "sampling" /\ gPc = "loop"
    /\ \E x \in StdNormals, u \in UDraws :
         /\ ~FLe(GammaV(gShape, x), Fin(0))
         /\ GammaAccepts(gShape, x, u)
         /\ gVal' = GammaValue(gShape, x)
    /\ gPc' = "unwind"
    /\ UNCHANGED <<mIn, mPc, mP, samples, gWhich, gShape, gPending, gX, allSamples, drawn, results, mStats, mHist>>

\* Line 114: a call with shape < 1 gets the value of its recursive call and
\* returns it times Math.pow(Math.random(), 1 / shape).
GammaUnwind ==
    /\ mPc = "sampling" /\ gPc = "unwind"
    /\ gPending # << >>
    /\ \E u \in UDraws :
         gVal' = FMul(gVal, FPow(Fin(u), FDiv(Fin(Scale), gPending[Len(gPending)])))
    /\ gPending' = SubSeq(gPending, 1, Len(gPending) - 1)
    /\ UNCHANGED <<mIn, mPc, mP, samples, gPc, gWhich, gShape, gX, allSamples, drawn, results, mStats, mHist>>

\* Lines 106-107: gammaRandom(alpha) has returned x; betaRandom calls gammaRandom(beta).
BetaSecond ==
    /\ mPc = "sampling" /\ gPc = "unwind"
    /\ gPending = << >>
    /\ gWhich = "x"
    /\ gX' = gVal
    /\ gWhich' = "y"
    /\ gShape' = PertBeta(CurParam)
    /\ gPc' = "enter"
    /\ UNCHANGED <<mIn, mPc, mP, samples, gPending, gVal, allSamples, drawn, results, mStats, mHist>>

\* Line 108: the value betaRandom returns for the gamma variates x and y.
betaRandomRatioOfGammas(x, y) == FDiv(x, y)
betaRandom(x, y) == FDiv(x, FAdd(x, y))

\* Line 85: the beta variate b rescaled into [min, max].
PertSample(param, b) ==
    FAdd(FMul(FSub(PertMax(param), PertMin(param)), b), PertMin(param))

\* Lines 108 and 85: gammaRandom(beta) has returned y; the sample is pushed.
PertPush ==
    /\ mPc = "sampling" /\ gPc = "unwind"
    /\ gPending = << >>
    /\ gWhich = "y"
    /\ samples' = Append(samples, PertSample(CurParam, betaRandom(gX, gVal)))
    /\ gPc' = "idle"
    /\ UNCHANGED <<mIn, mPc, mP, gWhich, gShape, gPending, gVal, gX, allSamples, drawn, results, mStats, mHist>>

\* ---- allSamples: a JavaScript object used as a map ----

\* The property names that are array indices ("1", "2", ...), with their values.
\* Object.keys lists them first, in ascending order, before the other names,
\* which come in the order of their creation.
IndexValue == ("0" :> 0) @@ ("1" :> 1) @@ ("2" :> 2)
IsIndexKey(k) == k \in DOMAIN IndexValue

HasKey(obj, k) == \E i \in 1..Len(obj) : obj[i].key = k

\* Where Object.keys lists a key that is being created.
InsertPos(obj, k) ==
    IF IsIndexKey(k)
    THEN 1 + Cardinality({i \in 1..Len(obj) :
                 IsIndexKey(obj[i].key) /\ IndexValue[obj[i].key] < IndexValue[k]})
    ELSE Len(obj) + 1

\* An assignment that adds a property even when the name is present.
ObjSetKeepingBoth(obj, k, val) == Append(obj, [key |-> k, val |-> val])
\* obj[k] = val
ObjSet(obj, k, val) ==
    IF HasKey(obj, k)
    THEN [i \in 1..Len(obj) |-> IF obj[i].key = k THEN [key |-> k, val |-> val] ELSE obj[i]]
    ELSE LET pos == InsertPos(obj, k)
         IN SubSeq(obj, 1, pos - 1) \o <<[key |-> k, val |-> val]>> \o SubSeq(obj, pos, Len(obj))

\* Lines 90 and 137: the loop of generateSamples is over; the samples are
\* returned and stored under the parameter's name.
GenerateReturn ==
    /\ mPc = "sampling"
    /\ mP <= Len(mIn.parameters)
    /\ gPc = "idle"
    /\ ~(Len(samples) < mIn.numSimulations)
    /\ allSamples' = ObjSet(allSamples, CurParam.name, samples)
    /\ drawn' = Append(drawn, samples)
    /\ samples' = << >>
    /\ mP' = mP + 1
    /\ UNCHANGED <<mIn, mPc, gvars, results, mStats, mHist>>

\* ---- Aggregation ----

\* Math.pow(b, t) for an integer t >= 0.
RECURSIVE FPowInt(_, _)
FPowInt(b, t) == IF t = 0 THEN Fin(Scale) ELSE FMul(FPowInt(b, t - 1), b)

RECURSIVE ProductFrom(_, _, _, _)
ProductFrom(acc, obj, i, k) ==
    IF k > Len(obj) THEN acc ELSE ProductFrom(FMul(acc, At(obj[k].val, i)), obj, i, k + 1)

RECURSIVE NpvFrom(_, _, _, _, _)
NpvFrom(acc, obj, rate, i, k) ==
    IF k > Len(obj) THEN acc
    ELSE NpvFrom(FAdd(acc, FDiv(At(obj[k].val, i), FPowInt(FAdd(Fin(Scale), rate), k - 1))),
                 obj, rate, i, k + 1)

RECURSIVE SumFrom(_, _, _, _)
SumFrom(acc, obj, i, k) ==
    IF k > Len(obj) THEN acc ELSE SumFrom(FAdd(acc, At(obj[k].val, i)), obj, i, k + 1)

\* Lines 141-166: one combined value per trial.
CombineAlwaysSum(in, obj) ==
    [i \in 1..in.numSimulations |-> SumFrom(Fin(0), obj, i, 1)]
Combine(in, obj) ==
    [i \in 1..in.numSimulations |->
        IF in.formula = "product" THEN ProductFrom(Fin(Scale), obj, i, 1)
        ELSE IF in.formula = "npv" /\ in.discountRate.k # "undef"
             THEN NpvFrom(Fin(0), obj, in.discountRate, i, 1)
        ELSE SumFrom(Fin(0), obj, i, 1)]

\* Line 168: results.sort((a, b) => a - b).  Finite values end up in
\* ascending order; with a NaN among them the comparator is inconsistent and
\* the order is whatever the engine's sort leaves.
IndexPerms(n) == {f \in [1..n -> 1..n] : \A i, j \in 1..n : f[i] = f[j] => i = j}
IsAscending(xs) == \A i \in 1..(Len(xs) - 1) : FLe(xs[i], xs[i + 1])
SortOutcomesUnsorted(xs) == {xs}
SortOutcomes(xs) ==
    LET perms == {[i \in 1..Len(xs) |-> xs[f[i]]] : f \in IndexPerms(Len(xs))}
    IN IF \E i \in 1..Len(xs) : IsNaN(xs[i]) THEN perms
       ELSE {ys \in perms : IsAscending(ys)}

\* ---- Statistics ----

\* sorted[i] for a zero-based index i.
AtIndex(sorted, i) == At(sorted, i + 1)

\* Math.floor(f / 100 * n), the index of the percentile at fraction f / 100.
PercentileIndex(f, n) == (f * n) \div 100

RECURSIVE SqDevFrom(_, _, _, _)
SqDevFrom(acc, xs, mean, i) ==
    IF i > Len(xs) THEN acc
    ELSE SqDevFrom(FAdd(acc, FMul(FSub(xs[i], mean), FSub(xs[i], mean))), xs, mean, i + 1)

CountWhere(xs, P(_)) == Cardinality({i \in 1..Len(xs) : P(xs[i])})

\* Line 186: the coefficient of variation, 0 when the mean is 0.
CoefficientOfVariationUnguarded(mean, stdDev) ==
    r2(FMul(FDiv(stdDev, FAbs(mean)), Fin(100 * Scale)))
CoefficientOfVariation(mean, stdDev) ==
    IF ~FEq(mean, Fin(0)) THEN r2(FMul(FDiv(stdDev, FAbs(mean)), Fin(100 * Scale))) ELSE Fin(0)

\* Lines 176-200.
computeStats(sorted, n) ==
    LET nn == Fin(n * Scale)
        hundred == Fin(100 * Scale)
        sum == FSum(sorted)
        mean == FDiv(sum, nn)
        variance == FDiv(SqDevFrom(Fin(0), sorted, mean, 1), nn)
        stdDev == FSqrt(variance)
        Neg(v) == FLt(v, Fin(0))
        Pos(v) == FGt(v, Fin(0))
        pct(f) == r2(AtIndex(sorted, PercentileIndex(f, n)))
    IN [numSimulations |-> n,
        mean |-> r2(mean),
        stdDev |-> r2(stdDev),
        coefficientOfVariation |-> CoefficientOfVariation(mean, stdDev),
        minimum |-> r2(AtIndex(sorted, 0)),
        maximum |-> r2(AtIndex(sorted, n - 1)),
        range |-> r2(FSub(AtIndex(sorted, n - 1), AtIndex(sorted, 0))),
        percentile5 |-> pct(5),
        percentile10 |-> pct(10),
        percentile25 |-> pct(25),
        median |-> pct(50),
        percentile75 |-> pct(75),
        percentile90 |-> pct(90),
        percentile95 |-> pct(95),
        probNegative |-> r2(FMul(FDiv(Fin(CountWhere(sorted, Neg) * Scale), nn), hundred)),
        probPositive |-> r2(FMul(FDiv(Fin(CountWhere(sorted, Pos) * Scale), nn), hundred))]

\* ---- Histogram ----

NumBins == 50

\* x || 1 takes the 1 when x is 0 or NaN.
Falsy(x) == IsNaN(x) \/ (IsFin(x) /\ x.v = 0)

\* Line 205.  The quotient (max - min) / numBins is 0 or NaN exactly when the
\* range is; the value kept here is the quotient rounded to 1/Scale.
BinWidthNoFallback(sorted, numBins) ==
    FDiv(FSub(AtIndex(sorted, Len(sorted) - 1), AtIndex(sorted, 0)), Fin(numBins * Scale))
BinWidth(sorted, numBins) ==
    LET range == FSub(AtIndex(sorted, Len(sorted) - 1), AtIndex(sorted, 0))
    IN IF Falsy(range) THEN Fin(Scale) ELSE FDiv(range, Fin(numBins * Scale))

\* Math.floor(d / binWidth) for binWidth = range / numBins, from the exact
\* quotient d * numBins / range.
FloorOverBins(d, range, numBins) ==
    IF IsFin(d) /\ IsFin(range) /\ range.v # 0
    THEN IF range.v > 0 THEN Fin(((d.v * numBins) \div range.v) * Scale)
         ELSE Fin((((-d.v) * numBins) \div (-range.v)) * Scale)
    ELSE FFloorDiv(d, FDiv(range, Fin(numBins * Scale)))

\* Lines 215-217: the zero-based bin of v, or -1 when the index is NaN (then
\* frequencies[NaN]++ touches no bin).
BinIndex(v, sorted, binWidth, numBins) ==
    LET min == AtIndex(sorted, 0)
        range == FSub(AtIndex(sorted, Len(sorted) - 1), min)
        idx == IF binWidth = BinWidthNoFallback(sorted, numBins) /\ ~Falsy(range)
               THEN FloorOverBins(FSub(v, min), range, numBins)
               ELSE FFloorDiv(FSub(v, min), binWidth)
    IN IF IsNaN(idx) THEN -1
       ELSE IF FGe(idx, Fin(numBins * Scale)) THEN numBins - 1
       ELSE IF FLt(idx, Fin(0)) THEN 0
       ELSE idx.v \div Scale

\* Lines 202-222.
computeHistogram(sorted, numBins) ==
    LET min == AtIndex(sorted, 0)
        binWidth == BinWidth(sorted, numBins)
    IN [bins |-> [b \in 1..numBins |->
                    r2(FAdd(min, FMul(Fin((b - 1) * Scale + Scale \div 2), binWidth)))],
        frequencies |-> [b \in 1..numBins |->
                    Cardinality({i \in 1..Len(sorted) :
                                    BinIndex(sorted[i], sorted, binWidth, numBins) = b - 1})],
        binWidth |-> r2(binWidth)]

\* Lines 140-173: new Array(numSimulations) throws a RangeError for a negative
\* length; otherwise the samples are combined, sorted and summarised.
Aggregate ==
    /\ mPc = "sampling"
    /\ mP > Len(mIn.parameters)
    /\ IF mIn.numSimulations < 0
       THEN /\ mPc' = "error"
            /\ UNCHANGED <<results, mStats, mHist>>
       ELSE \E sorted \in SortOutcomes(Combine(mIn, allSamples)) :
            /\ results' = sorted
            /\ mStats' = computeStats(sorted, mIn.numSimulations)
            /\ mHist' = computeHistogram(sorted, NumBins)
            /\ mPc' = "done"
    /\ UNCHANGED <<mIn, mP, samples, gvars, allSamples, drawn>>

\* ------------------------------------------------------------------------
\* Specifications
\* ------------------------------------------------------------------------

\* The calls of rateLimitedFetch made, and the delay minDelayMs they all pass,
\* in ticks of the clock.
MaxRequests == 3
MinDelayMs == 2

\* The keys of the cache: the quote, history, Alpha Vantage quote and composite
\* entries of one ticker.
CacheKeys == {"yq_T", "yh_T", "avq_T", "live_T"}

\* What a function returns for "no value" (null); values are records.
Null == [null |-> TRUE]

\* The longest time to live of an entry, in ticks, and the age at which the
\* model stops counting the ticks of an entry.
MaxTtl == 2
AgeCap == MaxTtl + 1

\* A key without an entry, and the entry of lines 17-21 and 36.
NoEntry == [present |-> FALSE, data |-> Null, age |-> 0, ttl |-> 0]
Entry(data, ttl) == [present |-> TRUE, data |-> data, age |-> 0, ttl |-> ttl]

VARIABLE calls      \* the number of calls of the two engines made so far

\* The fetchers fetchLiveCompanyData awaits, none of them started.
Fetchers == <<"yq", "yh", "avq">>
NoFetch == [state |-> "none", call |-> 0, value |-> Null]
NoFetches == [f \in {"yq", "yh", "avq"} |-> NoFetch]

\* api.ts line 12: the retries withRetry makes by default.
MAX_RETRIES == 2

\* The functions passed to onStatusChange, by their identity.
ListenerIds == {"f", "g"}
NothingReceived == [l \in ListenerIds |-> << >>]

\* ---- State of the services ----

VARIABLES
    isProcessingQueue,  \* the flag isProcessingQueue
    rateLimitQueue,     \* rateLimitQueue: the calls waiting with their delay, oldest first
    rlTimers,           \* the setTimeout callbacks pending, oldest first, as the ticks until each is due
    rlSince,            \* the ticks since the last fetch was started, up to minDelayMs
    rlCalled,           \* the number of rateLimitedFetch calls made; call i is the i-th
    rlStarted,          \* history: the fetches started, each with the ticks since the one before
    rlResponse,         \* for each call, "queued", "fetching", "resolved" or "rejected"
    cache,              \* the Map cache: for each key its entry, with the ticks since its timestamp
    cacheHist,          \* history: for each key the last setCache since the last clearAllCache
    cacheRead,          \* the last getCached call: its key and what it returned
    cacheReadOf,        \* history: what cacheHist held for the key of that call
    cacheSets,          \* the number of setCache calls made
    lCalls,             \* the number of fetchLiveCompanyData calls made
    lPc,                \* fetchLiveCompanyData: "idle", or "waiting" at the await of Promise.all
    lFetch,             \* the three fetchers of the call: "done" with their value, or "waiting" for a fetch
    lSeen,              \* history: what cacheHist held for the composite key when the call began
    lLog,               \* history: for each call returned, its source and what led to it
    wPc,                \* withRetry: "idle", "calling" fn, in "backoff", "returned" or "threw"
    wStarted,           \* the number of withRetry calls made
    wRetries,           \* withRetry: retries
    wAttempt,           \* withRetry: attempt
    wFnCalls,           \* history: the calls of fn the current withRetry call has made
    wLastError,         \* withRetry: lastError
    wWaits,             \* history: the delays the current withRetry call has waited, in ms
    wResult,            \* what the current withRetry call returned or threw
    connectionStatus,   \* api.ts line 24
    statusListeners,    \* api.ts line 25: the listeners, by their identity
    healthInterval,     \* api.ts line 52: whether the interval timer is set
    hChecks,            \* the number of checkConnection calls made
    hInFlight,          \* the checkConnection calls that await the response
    hLastDone,          \* history: the outcome of the check that completed last
    hWrites,            \* history: the status writes, each with the listeners registered then
    hReceived,          \* history: for each listener, the writes it was called with
    hSubs               \* the number of onStatusChange calls made

rlvars ==
    <<isProcessingQueue, rateLimitQueue, rlTimers, rlSince, rlCalled, rlStarted,
      rlResponse>>
cvars ==
    <<cache, cacheHist, cacheRead, cacheReadOf, cacheSets>>
lvars ==
    <<lCalls, lPc, lFetch, lSeen, lLog>>
wvars ==
    <<wPc, wStarted, wRetries, wAttempt, wFnCalls, wLastError,
      wWaits, wResult>>
hvars ==
    <<connectionStatus, statusListeners, healthInterval, hChecks, hInFlight, hLastDone,
      hWrites, hReceived, hSubs>>

svars == <<rlvars, cvars, lvars, wvars, hvars>>

besidesRateLimit == <<pvars, mvars, calls, cvars, lvars, wvars, hvars>>
besidesCache == <<pvars, mvars, calls, rlvars, lvars, wvars, hvars>>
besidesLive == <<pvars, mvars, calls, rlvars, cvars, wvars, hvars>>
besidesRetry == <<pvars, mvars, calls, rlvars, cvars, lvars, hvars>>
besidesStatus == <<pvars, mvars, calls, rlvars, cvars, lvars, wvars>>

vars == <<pvars, mvars, calls, svars>>

\* optimizePortfolio is called with one of PortfolioInputs (and runMonteCarlo
\* is not running).
PInit ==
    /\ pIn \in PortfolioInputs
    /\ pPc = "call"
    /\ pIter = 0
    /\ pW = << >>
    /\ bestMinVar = [weights |-> << >>, var |-> PInf]
    /\ bestMaxSharpe = [weights |-> << >>, sharpe |-> NInf]
    /\ pResult = NoResult
    /\ fI = 0
    /\ fJ = 0
    /\ bestVol = PInf
    /\ frontier = << >>
    /\ fSeen = {}
    /\ pSeen = {}
    /\ calls = 1
    /\ mIn = MCInput(0, << >>, "none", Undef)
    /\ mPc = "idle"
    /\ mP = 1
    /\ samples = << >>
    /\ gPc = "idle"
    /\ gWhich = "x"
    /\ gShape = NaN
    /\ gPending = << >>
    /\ gVal = NaN
    /\ gX = NaN
    /\ allSamples = << >>
    /\ drawn = << >>
    /\ results = << >>
    /\ mStats = NoStats
    /\ mHist = NoHistogram
    /\ isProcessingQueue = FALSE
    /\ rateLimitQueue = << >>
    /\ rlTimers = << >>
    /\ rlSince = MinDelayMs
    /\ rlCalled = 0
    /\ rlStarted = << >>
    /\ rlResponse = << >>
    /\ cache = [k \in CacheKeys |-> NoEntry]
    /\ cacheHist = [k \in CacheKeys |-> NoEntry]
    /\ cacheRead = [key |-> "none", data |-> Null]
    /\ cacheReadOf = NoEntry
    /\ cacheSets = 0
    /\ lCalls = 0
    /\ lPc = "idle"
    /\ lFetch = NoFetches
    /\ lSeen = NoEntry
    /\ lLog = << >>
    /\ wPc = "idle"
    /\ wStarted = 0
    /\ wRetries = MAX_RETRIES
    /\ wAttempt = 0
    /\ wFnCalls = 0
    /\ wLastError = Null
    /\ wWaits = << >>
    /\ wResult = Null
    /\ connectionStatus = "offline"
    /\ statusListeners = << >>
    /\ healthInterval = FALSE
    /\ hChecks = 0
    /\ hInFlight = {}
    /\ hLastDone = "none"
    /\ hWrites = << >>
    /\ hReceived = NothingReceived
    /\ hSubs = 0

\* runMonteCarlo is called with one of MCInputs (and optimizePortfolio is not
\* running).
MInit ==
    /\ mIn \in MCInputs
    /\ mPc = "sampling"
    /\ mP = 1
    /\ samples = << >>
    /\ gPc = "idle"
    /\ gWhich = "x"
    /\ gShape = NaN
    /\ gPending = << >>
    /\ gVal = NaN
    /\ gX = NaN
    /\ allSamples = << >>
    /\ drawn = << >>
    /\ results = << >>
    /\ mStats = NoStats
    /\ mHist = NoHistogram
    /\ pIn = PInput(<< >>, << >>, 0)
    /\ pPc = "idle"
    /\ pIter = 0
    /\ pW = << >>
    /\ bestMinVar = [weights |-> << >>, var |-> PInf]
    /\ bestMaxSharpe = [weights |-> << >>, sharpe |-> NInf]
    /\ pResult = NoResult
    /\ fI = 0
    /\ fJ = 0
    /\ bestVol = PInf
    /\ frontier = << >>
    /\ fSeen = {}
    /\ pSeen = {}
    /\ calls = 1
    /\ isProcessingQueue = FALSE
    /\ rateLimitQueue = << >>
    /\ rlTimers = << >>
    /\ rlSince = MinDelayMs
    /\ rlCalled = 0
    /\ rlStarted = << >>
    /\ rlResponse = << >>
    /\ cache = [k \in CacheKeys |-> NoEntry]
    /\ cacheHist = [k \in CacheKeys |-> NoEntry]
    /\ cacheRead = [key |-> "none", data |-> Null]
    /\ cacheReadOf = NoEntry
    /\ cacheSets = 0
    /\ lCalls = 0
    /\ lPc = "idle"
    /\ lFetch = NoFetches
    /\ lSeen = NoEntry
    /\ lLog = << >>
    /\ wPc = "idle"
    /\ wStarted = 0
    /\ wRetries = MAX_RETRIES
    /\ wAttempt = 0
    /\ wFnCalls = 0
    /\ wLastError = Null
    /\ wWaits = << >>
    /\ wResult = Null
    /\ connectionStatus = "offline"
    /\ statusListeners = << >>
    /\ healthInterval = FALSE
    /\ hChecks = 0
    /\ hInFlight = {}
    /\ hLastDone = "none"
    /\ hWrites = << >>
    /\ hReceived = NothingReceived
    /\ hSubs = 0

PNext ==
    \/ OptimizeEnter /\ UNCHANGED <<mvars, calls, svars>>
    \/ SearchStep /\ UNCHANGED <<mvars, calls, svars>>
    \/ FrontierDraw /\ UNCHANGED <<mvars, calls, svars>>
    \/ FrontierPush /\ UNCHANGED <<mvars, calls, svars>>
    \/ SearchReturn /\ UNCHANGED <<mvars, calls, svars>>

MNext ==
    \/ SampleNormal /\ UNCHANGED <<pvars, calls, svars>>
    \/ SampleLogNormal /\ UNCHANGED <<pvars, calls, svars>>
    \/ SampleUniform /\ UNCHANGED <<pvars, calls, svars>>
    \/ SampleTriangular /\ UNCHANGED <<pvars, calls, svars>>
    \/ PertBegin /\ UNCHANGED <<pvars, calls, svars>>
    \/ GammaRecurse /\ UNCHANGED <<pvars, calls, svars>>
    \/ GammaBody /\ UNCHANGED <<pvars, calls, svars>>
    \/ GammaRedraw /\ UNCHANGED <<pvars, calls, svars>>
    \/ GammaReject /\ UNCHANGED <<pvars, calls, svars>>
    \/ GammaAccept /\ UNCHANGED <<pvars, calls, svars>>
    \/ GammaUnwind /\ UNCHANGED <<pvars, calls, svars>>
    \/ BetaSecond /\ UNCHANGED <<pvars, calls, svars>>
    \/ PertPush /\ UNCHANGED <<pvars, calls, svars>>
    \/ GenerateReturn /\ UNCHANGED <<pvars, calls, svars>>
    \/ Aggregate /\ UNCHANGED <<pvars, calls, svars>>

\* One call of optimizePortfolio.
SpecPortfolio == PInit /\ [][PNext]_vars

\* The weights every iteration of the search draws when Math.random returns
\* 0.5 throughout.
EvenDraw(n) == randomWeights(n, [i \in 1..n |-> Scale \div 2])

\* optimizePortfolio, called with one of FrontierInputs, has reached line 81
\* (the frontier loop) after a search whose draws were all 0.5: the first
\* candidate was retained and the later, equal ones were not.
FInit ==
    /\ pIn \in FrontierInputs
    /\ pPc = "search"
    /\ pIter = Iterations(Len(pIn.assets))
    /\ pW = EvenDraw(Len(pIn.assets))
    /\ bestMinVar = [weights |-> EvenDraw(Len(pIn.assets)),
                     var |-> portfolioVol(EvenDraw(Len(pIn.assets)), CovMatrix(pIn))]
    /\ bestMaxSharpe =
          [weights |-> EvenDraw(Len(pIn.assets)),
           sharpe |-> FDiv(FSub(portfolioReturn(EvenDraw(Len(pIn.assets)), Returns(pIn)),
                                pIn.riskFreeRate),
                           portfolioVol(EvenDraw(Len(pIn.assets)), CovMatrix(pIn)))]
    /\ pResult = NoResult
    /\ fI = 0
    /\ fJ = 0
    /\ bestVol = PInf
    /\ frontier = << >>
    /\ fSeen = {}
    /\ pSeen = {EvenDraw(Len(pIn.assets))}
    /\ calls = 1
    /\ mIn = MCInput(0, << >>, "none", Undef)
    /\ mPc = "idle"
    /\ mP = 1
    /\ samples = << >>
    /\ gPc = "idle"
    /\ gWhich = "x"
    /\ gShape = NaN
    /\ gPending = << >>
    /\ gVal = NaN
    /\ gX = NaN
    /\ allSamples = << >>
    /\ drawn = << >>
    /\ results = << >>
    /\ mStats = NoStats
    /\ mHist = NoHistogram
    /\ isProcessingQueue = FALSE
    /\ rateLimitQueue = << >>
    /\ rlTimers = << >>
    /\ rlSince = MinDelayMs
    /\ rlCalled = 0
    /\ rlStarted = << >>
    /\ rlResponse = << >>
    /\ cache = [k \in CacheKeys |-> NoEntry]
    /\ cacheHist = [k \in CacheKeys |-> NoEntry]
    /\ cacheRead = [key |-> "none", data |-> Null]
    /\ cacheReadOf = NoEntry
    /\ cacheSets = 0
    /\ lCalls = 0
    /\ lPc = "idle"
    /\ lFetch = NoFetches
    /\ lSeen = NoEntry
    /\ lLog = << >>
    /\ wPc = "idle"
    /\ wStarted = 0
    /\ wRetries = MAX_RETRIES
    /\ wAttempt = 0
    /\ wFnCalls = 0
    /\ wLastError = Null
    /\ wWaits = << >>
    /\ wResult = Null
    /\ connectionStatus = "offline"
    /\ statusListeners = << >>
    /\ healthInterval = FALSE
    /\ hChecks = 0
    /\ hInFlight = {}
    /\ hLastDone = "none"
    /\ hWrites = << >>
    /\ hReceived = NothingReceived
    /\ hSubs = 0

FNext ==
    \/ FrontierDraw /\ UNCHANGED <<mvars, calls, svars>>
    \/ FrontierPush /\ UNCHANGED <<mvars, calls, svars>>
    \/ SearchReturn /\ UNCHANGED <<mvars, calls, svars>>

\* The frontier loop and the return of one call of optimizePortfolio.
SpecFrontier == FInit /\ [][FNext]_vars

\* One call of runMonteCarlo.
SpecMonteCarlo == MInit /\ [][MNext]_vars

\* The batch under a fair random source: the calls of gammaRandom keep
\* running, and a draw that the loops of lines 119-128 accept, when there is
\* one, is eventually drawn.
GammaFairness ==
    /\ WF_vars((GammaRecurse \/ GammaBody \/ GammaUnwind) /\ UNCHANGED <<pvars, calls, svars>>)
    /\ \/ []<>(~(gPc = "loop" /\ CanAccept))
       \/ []<><<gPc = "loop" /\ gPc' = "unwind">>_vars

SpecMonteCarloFair == MInit /\ [][MNext]_vars /\ GammaFairness

\* ---- A caller that calls the two engines one after the other ----

MaxCalls == 2

\* The engine is not running: it was never called, has returned or has thrown.
Returned(pc) == pc \in {"idle", "done", "error"}

\* Lines 35-37: a call of optimizePortfolio.  Every variable of the function
\* is local to the call (const / let inside the body), so the call starts
\* with new ones; the frame of the call before it no longer exists.
CallOptimizePortfolioKeepingBest ==
    /\ Returned(pPc) /\ Returned(mPc)
    /\ calls < MaxCalls
    /\ calls' = calls + 1
    /\ UNCHANGED svars
    /\ pIn' \in PortfolioInputs
    /\ pPc' = "call"
    /\ pIter' = 0
    /\ pW' = << >>
    /\ pResult' = NoResult
    /\ fI' = 0
    /\ fJ' = 0
    /\ bestVol' = PInf
    /\ frontier' = << >>
    /\ fSeen' = {}
    /\ pSeen' = {}
    /\ UNCHANGED <<bestMinVar, bestMaxSharpe>>
    /\ mIn' = MCInput(0, << >>, "none", Undef)
    /\ mPc' = "idle"
    /\ mP' = 1
    /\ samples' = << >>
    /\ gPc' = "idle"
    /\ gWhich' = "x"
    /\ gShape' = NaN
    /\ gPending' = << >>
    /\ gVal' = NaN
    /\ gX' = NaN
    /\ allSamples' = << >>
    /\ drawn' = << >>
    /\ results' = << >>
    /\ mStats' = NoStats
    /\ mHist' = NoHistogram
CallOptimizePortfolio ==
    /\ Returned(pPc) /\ Returned(mPc)
    /\ calls < MaxCalls
    /\ calls' = calls + 1
    /\ UNCHANGED svars
    /\ pIn' \in PortfolioInputs
    /\ pPc' = "call"
    /\ pIter' = 0
    /\ pW' = << >>
    /\ bestMinVar' = [weights |-> << >>, var |-> PInf]
    /\ bestMaxSharpe' = [weights |-> << >>, sharpe |-> NInf]
    /\ pResult' = NoResult
    /\ fI' = 0
    /\ fJ' = 0
    /\ bestVol' = PInf
    /\ frontier' = << >>
    /\ fSeen' = {}
    /\ pSeen' = {}
    /\ mIn' = MCInput(0, << >>, "none", Undef)
    /\ mPc' = "idle"
    /\ mP' = 1
    /\ samples' = << >>
    /\ gPc' = "idle"
    /\ gWhich' = "x"
    /\ gShape' = NaN
    /\ gPending' = << >>
    /\ gVal' = NaN
    /\ gX' = NaN
    /\ allSamples' = << >>
    /\ drawn' = << >>
    /\ results' = << >>
    /\ mStats' = NoStats
    /\ mHist' = NoHistogram

\* Lines 131-135: a call of runMonteCarlo, likewise with variables of its own.
CallRunMonteCarlo ==
    /\ Returned(pPc) /\ Returned(mPc)
    /\ calls < MaxCalls
    /\ calls' = calls + 1
    /\ UNCHANGED svars
    /\ mIn' \in MCInputs
    /\ mPc' = "sampling"
    /\ mP' = 1
    /\ samples' = << >>
    /\ gPc' = "idle"
    /\ gWhich' = "x"
    /\ gShape' = NaN
    /\ gPending' = << >>
    /\ gVal' = NaN
    /\ gX' = NaN
    /\ allSamples' = << >>
    /\ drawn' = << >>
    /\ results' = << >>
    /\ mStats' = NoStats
    /\ mHist' = NoHistogram
    /\ pIn' = PInput(<< >>, << >>, 0)
    /\ pPc' = "idle"
    /\ pIter' = 0
    /\ pW' = << >>
    /\ bestMinVar' = [weights |-> << >>, var |-> PInf]
    /\ bestMaxSharpe' = [weights |-> << >>, sharpe |-> NInf]
    /\ pResult' = NoResult
    /\ fI' = 0
    /\ fJ' = 0
    /\ bestVol' = PInf
    /\ frontier' = << >>
    /\ fSeen' = {}
    /\ pSeen' = {}

\* No call has been made yet.
CInit ==
    /\ calls = 0
    /\ pIn = PInput(<< >>, << >>, 0)
    /\ pPc = "idle"
    /\ pIter = 0
    /\ pW = << >>
    /\ bestMinVar = [weights |-> << >>, var |-> PInf]
    /\ bestMaxSharpe = [weights |-> << >>, sharpe |-> NInf]
    /\ pResult = NoResult
    /\ fI = 0
    /\ fJ = 0
    /\ bestVol = PInf
    /\ frontier = << >>
    /\ fSeen = {}
    /\ pSeen = {}
    /\ mIn = MCInput(0, << >>, "none", Undef)
    /\ mPc = "idle"
    /\ mP = 1
    /\ samples = << >>
    /\ gPc = "idle"
    /\ gWhich = "x"
    /\ gShape = NaN
    /\ gPending = << >>
    /\ gVal = NaN
    /\ gX = NaN
    /\ allSamples = << >>
    /\ drawn = << >>
    /\ results = << >>
    /\ mStats = NoStats
    /\ mHist = NoHistogram
    /\ isProcessingQueue = FALSE
    /\ rateLimitQueue = << >>
    /\ rlTimers = << >>
    /\ rlSince = MinDelayMs
    /\ rlCalled = 0
    /\ rlStarted = << >>
    /\ rlResponse = << >>
    /\ cache = [k \in CacheKeys |-> NoEntry]
    /\ cacheHist = [k \in CacheKeys |-> NoEntry]
    /\ cacheRead = [key |-> "none", data |-> Null]
    /\ cacheReadOf = NoEntry
    /\ cacheSets = 0
    /\ lCalls = 0
    /\ lPc = "idle"
    /\ lFetch = NoFetches
    /\ lSeen = NoEntry
    /\ lLog = << >>
    /\ wPc = "idle"
    /\ wStarted = 0
    /\ wRetries = MAX_RETRIES
    /\ wAttempt = 0
    /\ wFnCalls = 0
    /\ wLastError = Null
    /\ wWaits = << >>
    /\ wResult = Null
    /\ connectionStatus = "offline"
    /\ statusListeners = << >>
    /\ healthInterval = FALSE
    /\ hChecks = 0
    /\ hInFlight = {}
    /\ hLastDone = "none"
    /\ hWrites = << >>
    /\ hReceived = NothingReceived
    /\ hSubs = 0

CNext ==
    \/ CallOptimizePortfolio
    \/ CallRunMonteCarlo
    \/ PNext
    \/ MNext

\* Up to MaxCalls calls of the two engines, in any order.
SpecCalls == CInit /\ [][CNext]_vars

\* ---- Claims about the portfolio optimizer ----

\* A weight vector is a point of the simplex: finite, non-negative weights
\* whose sum is 1 up to the rounding of one unit per weight.
ValidSimplex(w) ==
    /\ \A i \in 1..Len(w) : IsFin(w[i]) /\ w[i].v >= 0
    /\ IsFin(FSum(w)) /\ Abs(FSum(w).v - Scale) <= Len(w)

\* The input satisfies the documented contract: N >= 2 and an N x N matrix.
ValidPortfolioInput(in) ==
    /\ Len(in.assets) >= 2
    /\ Len(in.correlationMatrix) = Len(in.assets)
    /\ \A i \in 1..Len(in.correlationMatrix) :
          Len(in.correlationMatrix[i]) = Len(in.assets)

\* C1: every weight vector drawn by the randomized search is a valid simplex
\* point (non-negative weights summing to 1), whatever Math.random returns,
\* 0 included.
C1_DrawnWeightsOnSimplex ==
    (pPc = "search" /\ pIter > 0) => ValidSimplex(pW)

\* The same statement for draws that are all non-zero (holds).
C1_NonZeroDrawsOnSimplex ==
    \A n \in 2..3 : \A us \in DrawSeqs(n) :
        (\A i \in 1..n : us[i] # 0) => ValidSimplex(randomWeights(n, us))

\* C2: for every valid input and every sequence of draws the returned
\* maxSharpePortfolio.sharpeRatio is at least equalWeightPortfolio.sharpeRatio
\* (here: not below it by more than 0.005, which is beyond what the rounding
\* of the fixed-point representation can account for).
C2_MaxSharpeNotBelowEqualWeight ==
    (pPc = "done" /\ ValidPortfolioInput(pIn)) =>
        FGe(FAdd(pResult.maxSharpePortfolio.sharpeRatio, Fin(5)),
            pResult.equalWeightPortfolio.sharpeRatio)

\* Two assets with the same return and volatility, correlation 1.0 throughout.
DegeneratePair(in) ==
    /\ Len(in.assets) = 2
    /\ in.assets[1].expectedReturn = in.assets[2].expectedReturn
    /\ in.assets[1].volatility = in.assets[2].volatility
    /\ in.correlationMatrix = <<Row(<<Scale, Scale>>), Row(<<Scale, Scale>>)>>

\* Every weight of the allocation is within 0.05 of 1/2.
NearEqualWeight(alloc) ==
    \A i \in 1..Len(alloc.weights) :
        /\ IsFin(alloc.weights[i])
        /\ Abs(alloc.weights[i].v - Scale \div 2) <= Scale \div 20

\* C3: in the degenerate two-asset case the returned min-variance and
\* max-Sharpe weights are each within 0.05 of (0.5, 0.5), whatever the draws.
C3_DegenerateStaysEqualWeight ==
    (pPc = "done" /\ DegeneratePair(pIn)) =>
        /\ NearEqualWeight(pResult.minVariancePortfolio)
        /\ NearEqualWeight(pResult.maxSharpePortfolio)

\* C4: optimizePortfolio fails before any search, with no result, whenever
\* N < 2 or the correlation matrix is not N x N (wrong number of rows, or a
\* row whose length is not N).
C4_InvalidInputRejected ==
    (pPc # "call" /\ ~ValidPortfolioInput(pIn)) => pPc = "error"

\* The part of C4 the code implements: N < 2 or a wrong number of rows (holds).
C4_RowCountRejected ==
    (pPc # "call" /\ InputRejected(pIn)) => (pPc = "error" /\ pResult = NoResult)

\* ---- Claims about the Monte Carlo engine ----

\* generateSamples is running, or has just finished its loop, for CurParam.
Sampling == mPc = "sampling" /\ mP <= Len(mIn.parameters)

\* C5: for each distribution kind and every n >= 0, generateSamples returns
\* exactly n values: every stored sample vector has length numSimulations, and
\* the vector being filled never grows beyond it.
C5_SampleCount ==
    mIn.numSimulations >= 0 =>
        /\ \A k \in 1..Len(allSamples) : Len(allSamples[k].val) = mIn.numSimulations
        /\ Len(samples) <= mIn.numSimulations

C5_Witness ==
    /\ mIn.numSimulations = MaxSim
    /\ Len(allSamples) = 1
    /\ Len(allSamples[1].val) = MaxSim
    /\ mIn.parameters[1].distribution = "lognormal"

\* The parameter has a support [min, max] with min <= mode <= max, min < max
\* (for uniform there is no mode).
HasSupport(param) ==
    LET lo == IF param.distribution = "pert" THEN PertMin(param) ELSE Nullish(param.minVal, Fin(0))
        hi == IF param.distribution = "pert" THEN PertMax(param) ELSE Nullish(param.maxVal, Fin(Scale))
        mode == Nullish(param.modeVal, Fin(Scale \div 2))
    IN /\ param.distribution \in {"uniform", "triangular", "pert"}
       /\ FLt(lo, hi)
       /\ param.distribution # "uniform" => (FLe(lo, mode) /\ FLe(mode, hi))

\* C6: for a uniform, triangular or PERT parameter with min <= mode <= max and
\* min < max, every sample lies in [minVal, maxVal].
C6_BoundedSupport ==
    (Sampling /\ HasSupport(CurParam)) =>
        \A i \in 1..Len(samples) :
            /\ FGe(samples[i], Nullish(CurParam.minVal, Fin(0)))
            /\ FLe(samples[i], Nullish(CurParam.maxVal, Fin(Scale)))

C6_Witness ==
    /\ Sampling /\ HasSupport(CurParam)
    /\ CurParam.distribution = "pert"
    /\ Len(samples) = 1
    /\ FGt(samples[1], PertMin(CurParam)) /\ FLt(samples[1], PertMax(CurParam))

\* C7: for a normal parameter with stdDev = 0 every sample equals mean exactly.
C7_ZeroStdDevIsMean ==
    (Sampling /\ CurParam.distribution = "normal" /\ CurParam.stdDev = Fin(0)) =>
        \A i \in 1..Len(samples) : samples[i] = Nullish(CurParam.mean, Fin(0))

C7_Witness ==
    /\ Sampling /\ CurParam.distribution = "normal" /\ CurParam.stdDev = Fin(0)
    /\ Len(samples) = MaxSim
    /\ samples[MaxSim] = Fin(1004)

\* runMonteCarlo has returned and every combined value equals the finite c.
ConstantBatch(c) ==
    /\ mPc = "done"
    /\ IsFin(c)
    /\ Len(results) >= 1
    /\ \A i \in 1..Len(results) : results[i] = c

\* One bin holds all n observations and the other bins hold none.
SingleBin(freq, n) ==
    \E b \in 1..Len(freq) :
        /\ freq[b] = n
        /\ \A o \in 1..Len(freq) : o # b => freq[o] = 0

\* What C8 says besides the mean.
DegenerateSummary ==
    /\ mStats.stdDev = Fin(0)
    /\ mStats.range = Fin(0)
    /\ mHist.binWidth = Fin(Scale)
    /\ Len(mHist.frequencies) = NumBins
    /\ SingleBin(mHist.frequencies, Len(results))

\* C8 as stated: when every combined value equals c, the reported mean is c,
\* stdDev and range are 0, the bin width is 1 and one bin holds every observation.
C8_ConstantBatchReportsC ==
    \A i \in 1..Len(results) :
        ConstantBatch(results[i]) => (mStats.mean = results[i] /\ DegenerateSummary)

\* C8 amended: the reported mean is c rounded to two decimals.
C8_ConstantBatchReportsRoundedC ==
    \A i \in 1..Len(results) :
        ConstantBatch(results[i]) => (mStats.mean = r2(results[i]) /\ DegenerateSummary)

C8_Witness ==
    /\ ConstantBatch(Fin(1004))
    /\ Len(results) = MaxSim
    /\ mStats.mean # Fin(1004)
    /\ mHist.frequencies[1] = MaxSim

NoNaN(xs) == \A i \in 1..Len(xs) : ~IsNaN(xs[i])
AllFinite(xs) == \A i \in 1..Len(xs) : IsFin(xs[i])

Fractions == <<5, 10, 25, 50, 75, 90, 95>>
ReportedPercentiles ==
    <<mStats.percentile5, mStats.percentile10, mStats.percentile25, mStats.median,
      mStats.percentile75, mStats.percentile90, mStats.percentile95>>

\* The reported percentiles are ordered and lie between minimum and maximum.
PercentilesInOrder ==
    /\ \A k \in 1..6 : FLe(ReportedPercentiles[k], ReportedPercentiles[k + 1])
    /\ FLe(mStats.minimum, ReportedPercentiles[1])
    /\ FLe(ReportedPercentiles[7], mStats.maximum)

\* C10: for every non-empty result vector the reported percentiles are ordered
\* and lie between the reported minimum and maximum.
C10_PercentilesOrderedAlways ==
    (mPc = "done" /\ Len(results) >= 1) => PercentilesInOrder

\* What holds of the code: for a non-empty result vector without NaN the
\* reported percentiles are ordered, lie between minimum and maximum, and each
\* is the sorted value at index floor(fraction * N), an index inside [0, N-1].
C10_PercentilesOrdered ==
    (mPc = "done" /\ Len(results) >= 1 /\ NoNaN(results)) =>
        /\ \A k \in 1..6 : FLe(ReportedPercentiles[k], ReportedPercentiles[k + 1])
        /\ FLe(mStats.minimum, ReportedPercentiles[1])
        /\ FLe(ReportedPercentiles[7], mStats.maximum)
        /\ \A k \in 1..7 :
              /\ PercentileIndex(Fractions[k], Len(results)) \in 0..(Len(results) - 1)
              /\ ReportedPercentiles[k] =
                    r2(results[PercentileIndex(Fractions[k], Len(results)) + 1])

C10_Witness ==
    /\ mPc = "done" /\ Len(results) = MaxSim /\ NoNaN(results)
    /\ FLt(mStats.percentile5, mStats.median)
    /\ FLt(mStats.median, mStats.percentile95)

\* C11: runMonteCarlo called with formula 'npv' and no discountRate fails and
\* returns no result.
C11_NpvWithoutRateFails ==
    (mIn.formula = "npv" /\ mIn.discountRate = Undef) => mPc # "done"

\* What the code does instead: it returns the result of the 'sum' rule.
C11_NpvWithoutRateIsSum ==
    (mPc = "done" /\ mIn.formula = "npv" /\ mIn.discountRate = Undef) =>
        results \in SortOutcomes([i \in 1..mIn.numSimulations |-> SumFrom(Fin(0), allSamples, i, 1)])

\* The parameter names of the batch are pairwise distinct.
DistinctNames(in) ==
    \A p, q \in 1..Len(in.parameters) :
        in.parameters[p].name = in.parameters[q].name => p = q

\* The sample vector stored for the p-th declared parameter.
SamplesOfDeclared(p) ==
    (CHOOSE e \in {allSamples[k] : k \in 1..Len(allSamples)} : e.key = mIn.parameters[p].name).val

\* The sum, product and discounted sum of the i-th samples of the parameters
\* p, p + 1, ... in declaration order.
RECURSIVE DeclaredSum(_, _)
DeclaredSum(i, p) ==
    IF p > Len(mIn.parameters) THEN Fin(0)
    ELSE FAdd(At(SamplesOfDeclared(p), i), DeclaredSum(i, p + 1))

RECURSIVE DeclaredProduct(_, _)
DeclaredProduct(i, p) ==
    IF p > Len(mIn.parameters) THEN Fin(Scale)
    ELSE FMul(At(SamplesOfDeclared(p), i), DeclaredProduct(i, p + 1))

RECURSIVE DeclaredNpv(_, _)
DeclaredNpv(i, p) ==
    IF p > Len(mIn.parameters) THEN Fin(0)
    ELSE FAdd(FDiv(At(SamplesOfDeclared(p), i),
                   FPowInt(FAdd(Fin(Scale), mIn.discountRate), p - 1)),
              DeclaredNpv(i, p + 1))

\* ys holds the values of xs, each as often, in some order.
Rearranged(xs, ys) ==
    /\ Len(xs) = Len(ys)
    /\ \E f \in [1..Len(xs) -> 1..Len(xs)] :
          /\ \A i, j \in 1..Len(xs) : f[i] = f[j] => i = j
          /\ \A i \in 1..Len(xs) : ys[i] = xs[f[i]]

\* C12: for pairwise distinct parameter names the aggregator produces one
\* combined value per trial, the sum of the parameters' i-th samples under
\* 'sum' or no rule and their product under 'product' (results holds these
\* values after its sort).
C12_SumAndProduct ==
    (mPc = "done" /\ DistinctNames(mIn) /\ mIn.formula \in {"none", "sum", "product"}) =>
        /\ Len(results) = mIn.numSimulations
        /\ Rearranged([i \in 1..mIn.numSimulations |->
                          IF mIn.formula = "product" THEN DeclaredProduct(i, 1)
                          ELSE DeclaredSum(i, 1)],
                      results)

C12_Witness ==
    /\ mPc = "done" /\ DistinctNames(mIn) /\ mIn.formula = "product"
    /\ Len(mIn.parameters) = 2 /\ mIn.numSimulations = 2
    /\ results[1] # results[2]
    /\ results[1] # DeclaredSum(1, 1) /\ results[1] # DeclaredSum(2, 1)

\* C13: under 'npv' with a discount rate, the time index of a parameter is its
\* position in the declared list, for every choice of distinct names.
C13_NpvByDeclarationOrder ==
    (mPc = "done" /\ DistinctNames(mIn) /\ mIn.formula = "npv" /\ mIn.discountRate # Undef) =>
        /\ Len(results) = mIn.numSimulations
        /\ Rearranged([i \in 1..mIn.numSimulations |-> DeclaredNpv(i, 1)], results)

\* No parameter name is an array index.
PlainNames(in) == \A p \in 1..Len(in.parameters) : ~IsIndexKey(in.parameters[p].name)

\* What holds of the code: declaration order is the time index when no name is
\* an array index.
C13_NpvByDeclarationOrderPlainNames ==
    (mPc = "done" /\ DistinctNames(mIn) /\ PlainNames(mIn)
        /\ mIn.formula = "npv" /\ mIn.discountRate # Undef) =>
        /\ Len(results) = mIn.numSimulations
        /\ Rearranged([i \in 1..mIn.numSimulations |-> DeclaredNpv(i, 1)], results)

\* The sum of the frequencies from bin b on.
RECURSIVE FrequencySum(_, _)
FrequencySum(freq, b) == IF b > Len(freq) THEN 0 ELSE freq[b] + FrequencySum(freq, b + 1)

\* The histogram has NumBins bins whose frequencies are non-negative and sum to
\* the number of combined values; the largest value is counted in the last bin
\* when the values differ.
HistogramCountsAll ==
    /\ Len(mHist.bins) = NumBins
    /\ Len(mHist.frequencies) = NumBins
    /\ \A b \in 1..NumBins : mHist.frequencies[b] >= 0
    /\ FrequencySum(mHist.frequencies, 1) = Len(results)
    /\ (Len(results) >= 1 /\ FLt(results[1], results[Len(results)])) =>
            (mHist.frequencies[1] >= 1 /\ mHist.frequencies[NumBins] >= 1)

\* C14: the histogram returned by runMonteCarlo always has exactly 50 bins and
\* every one of the N combined values is counted exactly once, so the
\* frequencies are non-negative and sum to N.
C14_HistogramCountsEveryValue == mPc = "done" => HistogramCountsAll

\* What holds of the code: every value that is not NaN is counted once.
C14_HistogramCountsEveryNumber == (mPc = "done" /\ NoNaN(results)) => HistogramCountsAll

\* C15: runMonteCarlo fails, returning no outcome, when numSimulations is 0 or
\* negative; it never returns statistics computed from an empty vector.
C15_NoTrialsFails == mIn.numSimulations <= 0 => mPc # "done"

\* What holds of the code: only a negative count ends in an error (the
\* RangeError of new Array), and a count of 0 returns a record of NaN.
C15_NegativeCountFails == mIn.numSimulations < 0 => mPc # "done"
C15_ZeroCountReturnsNaN ==
    (mPc = "done" /\ mIn.numSimulations = 0) =>
        /\ results = << >>
        /\ IsNaN(mStats.mean) /\ IsNaN(mStats.stdDev) /\ IsNaN(mStats.minimum)
        /\ IsNaN(mStats.median) /\ IsNaN(mStats.probNegative)

\* A triangular or PERT parameter whose range has zero width.
ZeroWidth(param) ==
    /\ param.distribution \in {"triangular", "pert"}
    /\ FEq(Nullish(param.minVal, Fin(0)), Nullish(param.maxVal, Fin(Scale)))

\* C16: a triangular or PERT parameter with minVal = maxVal makes runMonteCarlo
\* fail at once: no sample is drawn for it and no result is returned.
C16_ZeroWidthFails ==
    (mIn.numSimulations >= 1 /\ \E p \in 1..Len(mIn.parameters) : ZeroWidth(mIn.parameters[p])) =>
        /\ mPc # "done"
        /\ (Sampling /\ ZeroWidth(CurParam)) => (samples = << >> /\ gPc = "idle")

\* What the code does instead: the triangular sampler returns maxVal, and the
\* PERT sampler returns NaN.
C16_ZeroWidthSamples ==
    (Sampling /\ ZeroWidth(CurParam)) =>
        \A i \in 1..Len(samples) :
            IF CurParam.distribution = "triangular"
            THEN samples[i] = Nullish(CurParam.maxVal, Fin(Scale))
            ELSE IsNaN(samples[i])

\* ---- Further claims about the portfolio optimizer ----

\* The allocation returned for the weights w reports a Sharpe ratio of 0 when
\* the volatility of w is 0, and its three figures are finite.
WellFormedAllocation(alloc, w) ==
    /\ portfolioVol(w, CovMatrix(pIn)) = Fin(0) => alloc.sharpeRatio = Fin(0)
    /\ alloc.volatility = Fin(0) => alloc.sharpeRatio = Fin(0)
    /\ IsFin(alloc.sharpeRatio) /\ IsFin(alloc.volatility) /\ IsFin(alloc.expectedReturn)

PortfolioFrame ==
    <<pIter, pW, bestMinVar, bestMaxSharpe, pResult, fI, fJ, bestVol, frontier, fSeen, pSeen>>
MonteCarloFrame ==
    <<mP, samples, gPc, gWhich, gShape, gPending, gVal, gX, allSamples, results, mStats, mHist>>
NewPortfolioFrame ==
    <<0, << >>, [weights |-> << >>, var |-> PInf], [weights |-> << >>, sharpe |-> NInf], NoResult,
      0, 0, PInf, << >>, {}, {}>>
NewMonteCarloFrame ==
    <<1, << >>, "idle", "x", NaN, << >>, NaN, NaN, << >>, << >>, NoStats, NoHistogram>>

\* A step of a call leaves the caller's input as it is, and the step that
\* starts a call starts it from the input alone, whatever the calls before it
\* left behind.
FrameStep ==
    /\ ~Returned(pPc) => pIn' = pIn
    /\ ~Returned(mPc) => mIn' = mIn
    /\ (Returned(pPc) /\ ~Returned(pPc')) => (pPc' = "call" /\ PortfolioFrame' = NewPortfolioFrame)
    /\ (Returned(mPc) /\ ~Returned(mPc')) => (mPc' = "sampling" /\ MonteCarloFrame' = NewMonteCarloFrame)

\* C18: runMonteCarlo and optimizePortfolio keep no state across calls: a call
\* starts from its input only, so its result depends on that input and on the
\* draws of the call, and the caller's input objects are left unchanged.
C18_NoStateAcrossCalls == [][FrameStep]_vars

C18_Witness ==
    /\ calls = MaxCalls
    /\ pPc = "done"
    /\ Len(pIn.assets) = 3
    /\ pResult.maxSharpePortfolio.sharpeRatio # pResult.equalWeightPortfolio.sharpeRatio

\* ---- Claims about the efficient frontier ----

\* The draws made for the target whose return is within 0.02 of it.
Qualifying(target) ==
    {d \in fSeen : FLe(FAbs(FSub(d.ret, target)), Fin(FrontierTolerance))}

\* The lowest volatility among the draws ds.
LowestVol(ds) == (CHOOSE d \in ds : \A e \in ds : FLe(d.vol, e.vol)).vol

\* The step that ends target fI appends the point of the target, with the
\* lowest volatility of its qualifying draws, exactly when a draw qualifies;
\* no other step changes the frontier; the frontier is what is returned.
FrontierStep ==
    /\ fI' = fI + 1 =>
          frontier' = IF Qualifying(TargetRet(pIn, fI)) = {} THEN frontier
                      ELSE Append(frontier,
                                  [ret |-> r4(TargetRet(pIn, fI)),
                                   risk |-> r4(LowestVol(Qualifying(TargetRet(pIn, fI))))])
    /\ fI' = fI => frontier' = frontier
    /\ Len(frontier') <= fI'
    /\ pPc' = "done" => (pResult'.efficientFrontier = frontier /\ fI = FrontierPoints(pIn))

\* C19: for each of the numFrontierPoints targets a point is present in
\* efficientFrontier if and only if one of the draws of the target has a
\* return within 0.02 of it, and its risk is the lowest volatility among
\* those draws; the points are at most numFrontierPoints, in target order.
C19_FrontierPoints == [][FrontierStep]_vars

\* The same for inputs that ask for two points or more (holds).
C19_FrontierPointsFromTwo == [][FrontierPoints(pIn) >= 2 => FrontierStep]_vars

\* A frontier of two points, the second from two qualifying draws of which the
\* later has the lower volatility.
C19_TwoPoints ==
    /\ pPc = "done"
    /\ FrontierPoints(pIn) = 2
    /\ Len(pResult.efficientFrontier) = 2
    /\ FLt(pResult.efficientFrontier[1].ret, pResult.efficientFrontier[2].ret)

\* ---- Claims about the retained candidates of the search ----

\* The volatility and the Sharpe ratio the search computes for candidate w
\* (lines 67-68).
CandidateVol(w) == portfolioVol(w, CovMatrix(pIn))

CandidateSharpe(w) ==
    FDiv(FSub(portfolioReturn(w, Returns(pIn)), pIn.riskFreeRate), CandidateVol(w))

\* The retained candidates as lines 59-60 set them, before any replacement.
SeedMinVar == [weights |-> EqWeights(Len(pIn.assets)), var |-> PInf]

SeedMaxSharpe == [weights |-> EqWeights(Len(pIn.assets)), sharpe |-> NInf]

\* No evaluated candidate is better than the retained ones, and a retained
\* candidate is an evaluated one with its own figure, or still the seed.
RetainedAreBest ==
    pPc = "search" =>
        /\ \A w \in pSeen : /\ ~FLt(CandidateVol(w), bestMinVar.var)
                            /\ ~FGt(CandidateSharpe(w), bestMaxSharpe.sharpe)
        /\ \/ bestMinVar = SeedMinVar
           \/ /\ bestMinVar.weights \in pSeen
              /\ bestMinVar.var = CandidateVol(bestMinVar.weights)
        /\ \/ bestMaxSharpe = SeedMaxSharpe
           \/ /\ bestMaxSharpe.weights \in pSeen
              /\ bestMaxSharpe.sharpe = CandidateSharpe(bestMaxSharpe.weights)

\* A retained candidate changes only to the candidate of the step, and only
\* when that one is strictly better.
ReplacedWhenBetter ==
    pPc = "search" =>
        /\ bestMinVar' # bestMinVar =>
              /\ bestMinVar'.weights = pW'
              /\ FLt(bestMinVar'.var, bestMinVar.var)
        /\ bestMaxSharpe' # bestMaxSharpe =>
              /\ bestMaxSharpe'.weights = pW'
              /\ FGt(bestMaxSharpe'.sharpe, bestMaxSharpe.sharpe)

\* The return comes after the last iteration, with the allocations of the
\* candidates retained then.
ReturnedAreRetained ==
    pPc' = "done" =>
        /\ pIter = Iterations(Len(pIn.assets))
        /\ pResult'.minVariancePortfolio =
              buildAllocation(pIn, bestMinVar.weights, CovMatrix(pIn))
        /\ pResult'.maxSharpePortfolio =
              buildAllocation(pIn, bestMaxSharpe.weights, CovMatrix(pIn))

\* C20: at every point of the search the retained min-variance candidate has
\* the lowest volatility, and the retained max-Sharpe candidate the highest
\* Sharpe ratio, of the candidates evaluated so far; a candidate replaces the
\* retained one only when it is strictly better; the returned portfolios are
\* those of the retained candidates after the last iteration.
C20_RetainedAreBest ==
    [][RetainedAreBest /\ ReplacedWhenBetter /\ ReturnedAreRetained]_vars

\* A returned search of two candidates or more, where the retained ones are
\* different candidates and each beats another evaluated candidate.
C20_Witness ==
    /\ pPc = "done"
    /\ Cardinality(pSeen) >= 2
    /\ bestMinVar.weights \in pSeen
    /\ bestMaxSharpe.weights \in pSeen
    /\ bestMinVar.weights # bestMaxSharpe.weights
    /\ \E w \in pSeen : FLt(bestMinVar.var, CandidateVol(w))
    /\ \E w \in pSeen : FGt(bestMaxSharpe.sharpe, CandidateSharpe(w))

\* ---- Claims about gammaRandom ----

\* The shape betaRandom passed to the outermost gammaRandom call in progress.
OuterShape == IF gWhich = "x" THEN PertAlpha(CurParam) ELSE PertBeta(CurParam)

\* The outermost gammaRandom call has returned gVal to betaRandom.
GammaReturned == mPc = "sampling" /\ gPc = "unwind" /\ gPending = << >>

\* C21: gammaRandom called with shape <= 0 fails with an error and never
\* returns a numeric sample.
C21_NonPositiveShapeFails == ~(GammaReturned /\ FLe(OuterShape, Fin(0)))

\* What the code does instead: the call with shape <= 0 returns, and the
\* value it returns is 0 or NaN (holds).
C21_NonPositiveShapeReturnsZero ==
    (GammaReturned /\ FLe(OuterShape, Fin(0))) => (gVal = Fin(0) \/ IsNaN(gVal))

\* betaRandom has just called gammaRandom.
GammaEntered == mPc = "sampling" /\ gPc = "enter" /\ gPending = << >>

\* A call with shape in (0, 1) is in the loops of the one call it makes, with
\* shape + 1; a call with shape >= 1 is in its own loops.
RecursesOnce ==
    (mPc = "sampling" /\ gPc # "idle" /\ FGt(OuterShape, Fin(0))) =>
        /\ Len(gPending) <= 1
        /\ gPc = "loop" =>
              /\ FGe(gShape, Fin(Scale))
              /\ IF FLt(OuterShape, Fin(Scale))
                 THEN gPending = <<OuterShape>> /\ gShape = FAdd(OuterShape, Fin(Scale))
                 ELSE gPending = << >> /\ gShape = OuterShape

\* The loops of a call with shape >= 1 end with a value above 0.
LoopReturnsPositive ==
    (gPc = "loop" /\ gPc' = "unwind" /\ FGe(gShape, Fin(Scale))) => FGt(gVal', Fin(0))

\* C22: gammaRandom(shape) terminates for every shape > 0 under a fair random
\* source; a call with shape < 1 recurses exactly once, to shape + 1 >= 1,
\* before sampling; the value returned is above 0 when shape >= 1.
C22_GammaTerminates ==
    /\ []RecursesOnce
    /\ [][LoopReturnsPositive]_vars
    /\ (GammaEntered /\ FGt(OuterShape, Fin(0))) ~> GammaReturned

\* gammaRandom(0.5) has returned a value above 0, after its one recursive call.
C22_Witness ==
    /\ GammaReturned
    /\ FGt(OuterShape, Fin(0)) /\ FLt(OuterShape, Fin(Scale))
    /\ FGt(gVal, Fin(0))

\* ---- Claims about repeated parameter names ----

\* The names of the declared parameters.
DeclaredNames == {mIn.parameters[p].name : p \in 1..Len(mIn.parameters)}

\* The position of the last declaration under name nm.
LastDeclared(nm) ==
    CHOOSE p \in 1..Len(mIn.parameters) :
        /\ mIn.parameters[p].name = nm
        /\ \A q \in 1..Len(mIn.parameters) : mIn.parameters[q].name = nm => q <= p

\* For each key of allSamples, the vector generated for the last declaration
\* under that name.
LaterVectors ==
    [k \in 1..Len(allSamples) |->
        [key |-> allSamples[k].key, val |-> drawn[LastDeclared(allSamples[k].key)]]]

\* The combined value of trial i over one vector per distinct name.
RECURSIVE OverNames(_, _, _)
OverNames(acc, i, k) ==
    IF k > Len(LaterVectors) THEN acc
    ELSE LET x == At(LaterVectors[k].val, i)
         IN OverNames(IF mIn.formula = "product" THEN FMul(acc, x)
                      ELSE IF mIn.formula = "npv" /\ mIn.discountRate # Undef
                           THEN FAdd(acc, FDiv(x, FPowInt(FAdd(Fin(Scale), mIn.discountRate), k - 1)))
                      ELSE FAdd(acc, x),
                      i, k + 1)

\* C23: when parameters share a name, the vector of the later declaration
\* replaces the earlier one under that name, and each trial is combined over
\* one vector per distinct name: k declared parameters with d distinct names
\* give d terms to sum and product, and d time indices to npv.
C23_LaterDeclarationOverwrites ==
    mPc = "done" =>
        /\ Len(drawn) = Len(mIn.parameters)
        /\ Len(allSamples) = Cardinality(DeclaredNames)
        /\ {allSamples[k].key : k \in 1..Len(allSamples)} = DeclaredNames
        /\ allSamples = LaterVectors
        /\ Len(results) = mIn.numSimulations
        /\ Rearranged([i \in 1..mIn.numSimulations |->
                          OverNames(IF mIn.formula = "product" THEN Fin(Scale) ELSE Fin(0), i, 1)],
                      results)

\* Three parameters under two names: the sum has two terms, and differs from
\* the sum of the three vectors and from the sum with the earlier vector.
C23_Witness ==
    /\ mPc = "done" /\ mIn.formula = "sum"
    /\ Len(mIn.parameters) = 3 /\ Len(allSamples) = 2
    /\ results[1] = FAdd(drawn[3][1], drawn[2][1])
    /\ results[1] # FAdd(FAdd(drawn[1][1], drawn[2][1]), drawn[3][1])
    /\ results[1] # FAdd(drawn[1][1], drawn[2][1])

\* ---- Claims about the returns of the frontier points ----

\* x lies between a and b, whichever of the two is the lower.
Between(x, a, b) == (FLe(a, x) /\ FLe(x, b)) \/ (FLe(b, x) /\ FLe(x, a))

\* The point a step appends to the frontier has a finite ret between minRet
\* and maxRet, and a draw of its target has a return within 0.02 of that ret.
PointPushed ==
    frontier' # frontier =>
        LET pt == frontier'[Len(frontier')]
        IN /\ IsFin(pt.ret)
           /\ Between(pt.ret, MinRet(pIn), MaxRet(pIn))
           /\ \E d \in fSeen : FLe(FAbs(FSub(d.ret, pt.ret)), Fin(FrontierTolerance))

\* C24: for every numFrontierPoints >= 1, every point of efficientFrontier has
\* a finite ret between 0.5 x min(asset returns) and 1.2 x max(asset returns),
\* and was retained only because a draw's return was within 0.02 of that ret.
C24_FrontierRetsFinite == [][FrontierPoints(pIn) >= 1 => PointPushed]_vars

\* The same for numFrontierPoints >= 2 (holds).
C24_FrontierRetsFiniteFromTwo == [][FrontierPoints(pIn) >= 2 => PointPushed]_vars

\* ------------------------------------------------------------------------
\* Market data service: the rate limiter (rateLimitedFetch)
\* ------------------------------------------------------------------------

\* The state of the rate limiter and of the timers, as one value.
RateLimiter ==
    [flag |-> isProcessingQueue, queue |-> rateLimitQueue, timers |-> rlTimers,
     since |-> rlSince, called |-> rlCalled, started |-> rlStarted, response |-> rlResponse]

\* The variables take the values of rl.
BecomesRateLimiter(rl) ==
    /\ isProcessingQueue' = rl.flag
    /\ rateLimitQueue' = rl.queue
    /\ rlTimers' = rl.timers
    /\ rlSince' = rl.since
    /\ rlCalled' = rl.called
    /\ rlStarted' = rl.started
    /\ rlResponse' = rl.response

\* Lines 49-59: doFetch() starts the fetch of call c.
doFetch(rl, c, wasQueued) ==
    [rl EXCEPT !.started = Append(@, [call |-> c, queued |-> wasQueued, gap |-> rl.since]),
               !.since = 0,
               !.response = IF c > Len(@) THEN Append(@, "fetching")
                            ELSE [@ EXCEPT ![c] = "fetching"]]

\* Lines 64-68 and 74-78: setTimeout(..., minDelayMs).
SetTimeout(rl, delay) == [rl EXCEPT !.timers = Append(@, delay)]

\* Lines 47-83: a call of rateLimitedFetch(url, delay).  With the flag clear
\* the call sets it, starts its fetch and sets the timer; otherwise it queues
\* its closure.
rateLimitedFetch(rl, delay) ==
    LET c == rl.called + 1
    IN IF ~rl.flag
       THEN SetTimeout(doFetch([rl EXCEPT !.flag = TRUE, !.called = c], c, FALSE), delay)
       ELSE [rl EXCEPT !.called = c,
                       !.queue = Append(@, [call |-> c, delay |-> delay]),
                       !.response = Append(@, "queued")]

\* The pending timer that expires next: the one due first, the oldest of
\* those when several are.
NextTimer(timers) ==
    CHOOSE i \in 1..Len(timers) :
        \A j \in 1..Len(timers) : timers[i] < timers[j] \/ (timers[i] = timers[j] /\ i <= j)

\* timers without the i-th.
Without(timers, i) == SubSeq(timers, 1, i - 1) \o SubSeq(timers, i + 1, Len(timers))

\* The callback when the closure shifted sets no timer of its own.
timerCallbackSettingNone(rl) ==
    LET fired == [rl EXCEPT !.flag = FALSE, !.timers = Without(@, NextTimer(@))]
    IN IF rl.queue # << >>
       THEN doFetch([fired EXCEPT !.queue = Tail(@)], Head(rl.queue).call, TRUE)
       ELSE fired

\* Lines 64-68 and 72-78: the callback of the timer that expires.  It clears
\* the flag and shifts the queue; the closure shifted starts its fetch and
\* sets a timer.
timerCallback(rl) ==
    LET fired == [rl EXCEPT !.flag = FALSE, !.timers = Without(@, NextTimer(@))]
    IN IF rl.queue # << >>
       THEN SetTimeout(doFetch([fired EXCEPT !.queue = Tail(@)], Head(rl.queue).call, TRUE),
                       Head(rl.queue).delay)
       ELSE fired

\* A timer is due.
TimerDue == rlTimers # << >> /\ rlTimers[NextTimer(rlTimers)] <= 0

\* The timers and the time since the last fetch, a tick later.  A timer that
\* is due may expire late, never early; the model counts the ticks a timer is
\* overdue up to MinDelayMs.
LaterRateLimiter(rl) ==
    [rl EXCEPT !.timers = [i \in 1..Len(@) |-> Max2(-MinDelayMs, @[i] - 1)],
               !.since = Min2(MinDelayMs, @ + 1)]

\* A call of rateLimitedFetch with the delay MinDelayMs.
RateLimitedFetch ==
    /\ rlCalled < MaxRequests
    /\ BecomesRateLimiter(rateLimitedFetch(RateLimiter, MinDelayMs))

\* A timer expires.
TimerExpires ==
    /\ TimerDue
    /\ BecomesRateLimiter(timerCallback(RateLimiter))

\* Lines 49-58: the fetch of a call settles; doFetch resolves the promise of
\* the call with the response or rejects it with the error.
FetchSettles ==
    /\ \E c \in 1..Len(rlResponse), outcome \in {"resolved", "rejected"} :
         /\ rlResponse[c] = "fetching"
         /\ rlResponse' = [rlResponse EXCEPT ![c] = outcome]
    /\ UNCHANGED <<isProcessingQueue, rateLimitQueue, rlTimers, rlSince, rlCalled, rlStarted>>

\* A tick of the clock.
Tick == BecomesRateLimiter(LaterRateLimiter(RateLimiter))

\* The module is loaded: lines 44-45.
RInit ==
    /\ calls = 0
    /\ pIn = PInput(<< >>, << >>, 0)
    /\ pPc = "idle"
    /\ pIter = 0
    /\ pW = << >>
    /\ bestMinVar = [weights |-> << >>, var |-> PInf]
    /\ bestMaxSharpe = [weights |-> << >>, sharpe |-> NInf]
    /\ pResult = NoResult
    /\ fI = 0
    /\ fJ = 0
    /\ bestVol = PInf
    /\ frontier = << >>
    /\ fSeen = {}
    /\ pSeen = {}
    /\ mIn = MCInput(0, << >>, "none", Undef)
    /\ mPc = "idle"
    /\ mP = 1
    /\ samples = << >>
    /\ gPc = "idle"
    /\ gWhich = "x"
    /\ gShape = NaN
    /\ gPending = << >>
    /\ gVal = NaN
    /\ gX = NaN
    /\ allSamples = << >>
    /\ drawn = << >>
    /\ results = << >>
    /\ mStats = NoStats
    /\ mHist = NoHistogram
    /\ isProcessingQueue = FALSE
    /\ rateLimitQueue = << >>
    /\ rlTimers = << >>
    /\ rlSince = MinDelayMs
    /\ rlCalled = 0
    /\ rlStarted = << >>
    /\ rlResponse = << >>
    /\ cache = [k \in CacheKeys |-> NoEntry]
    /\ cacheHist = [k \in CacheKeys |-> NoEntry]
    /\ cacheRead = [key |-> "none", data |-> Null]
    /\ cacheReadOf = NoEntry
    /\ cacheSets = 0
    /\ lCalls = 0
    /\ lPc = "idle"
    /\ lFetch = NoFetches
    /\ lSeen = NoEntry
    /\ lLog = << >>
    /\ wPc = "idle"
    /\ wStarted = 0
    /\ wRetries = MAX_RETRIES
    /\ wAttempt = 0
    /\ wFnCalls = 0
    /\ wLastError = Null
    /\ wWaits = << >>
    /\ wResult = Null
    /\ connectionStatus = "offline"
    /\ statusListeners = << >>
    /\ healthInterval = FALSE
    /\ hChecks = 0
    /\ hInFlight = {}
    /\ hLastDone = "none"
    /\ hWrites = << >>
    /\ hReceived = NothingReceived
    /\ hSubs = 0

RNext ==
    \/ RateLimitedFetch /\ UNCHANGED besidesRateLimit
    \/ TimerExpires /\ UNCHANGED besidesRateLimit
    \/ FetchSettles /\ UNCHANGED besidesRateLimit
    \/ Tick /\ UNCHANGED besidesRateLimit

SpecRateLimit == RInit /\ [][RNext]_vars

\* Timers keep firing: the clock advances and a timer that is due expires.
SpecRateLimitFair ==
    /\ RInit /\ [][RNext]_vars
    /\ WF_vars(Tick /\ UNCHANGED besidesRateLimit)
    /\ WF_vars(TimerExpires /\ UNCHANGED besidesRateLimit)

\* ---- Claims about the rate limiter ----

\* C25: under every interleaving of rateLimitedFetch calls with the same
\* minDelayMs and timer expirations, no two fetches are started less than
\* minDelayMs apart: a fetch starts minDelayMs or more after the one before.
C25_FetchesSpaced == \A i \in 1..Len(rlStarted) : rlStarted[i].gap >= MinDelayMs

\* The calls whose fetch has been started, and the calls waiting.
StartedCalls == {rlStarted[i].call : i \in 1..Len(rlStarted)}
QueuedCalls == {rateLimitQueue[i].call : i \in 1..Len(rateLimitQueue)}

\* Every call made is waiting or has had one fetch started, never both and
\* never twice; the calls that waited were started in the order they came, and
\* before the calls still waiting; a timer is pending while a call waits.
OneFetchEach ==
    /\ StartedCalls \cup QueuedCalls = 1..rlCalled
    /\ StartedCalls \cap QueuedCalls = {}
    /\ \A i, j \in 1..Len(rlStarted) : rlStarted[i].call = rlStarted[j].call => i = j
    /\ \A i, j \in 1..Len(rateLimitQueue) : i < j => rateLimitQueue[i].call < rateLimitQueue[j].call
    /\ \A i, j \in 1..Len(rlStarted) :
          (i < j /\ rlStarted[i].queued /\ rlStarted[j].queued) => rlStarted[i].call < rlStarted[j].call
    /\ \A i \in 1..Len(rlStarted), j \in 1..Len(rateLimitQueue) :
          rlStarted[i].queued => rlStarted[i].call < rateLimitQueue[j].call
    /\ rateLimitQueue # << >> => rlTimers # << >>

\* A call made while the flag is set is appended to the queue; a call made
\* while it is clear starts its fetch at once.
CallQueuedOrStarted ==
    rlCalled' = rlCalled + 1 =>
        IF isProcessingQueue
        THEN /\ rateLimitQueue' = Append(rateLimitQueue, [call |-> rlCalled + 1, delay |-> MinDelayMs])
             /\ rlStarted' = rlStarted
        ELSE rateLimitQueue' = rateLimitQueue /\ rlCalled + 1 \in StartedCalls'

\* C26: every call of rateLimitedFetch starts exactly one fetch: a call made
\* while isProcessingQueue is true is appended to rateLimitQueue and, while
\* timers keep firing, is eventually shifted and started, in FIFO order; no
\* queued call is dropped or started twice, and a timer is pending whenever
\* the queue is not empty.
C26_EveryCallFetchesOnce ==
    /\ []OneFetchEach
    /\ [][CallQueuedOrStarted]_vars
    /\ \A c \in 1..MaxRequests : (c \in QueuedCalls) ~> (c \in StartedCalls)

\* Two calls waited and were started, the second of them after the first.
C26_Witness ==
    /\ rateLimitQueue = << >>
    /\ \E i, j \in 1..Len(rlStarted) :
          i < j /\ rlStarted[i].queued /\ rlStarted[j].queued

\* ------------------------------------------------------------------------
\* Market data service: the cache (getCached, setCache, clearAllCache)
\* ------------------------------------------------------------------------

\* Line 28 without the test of the age.
ExpiredNever(entry) == FALSE
\* Line 28: Date.now() - entry.timestamp > entry.ttl.
Expired(entry) == entry.age > entry.ttl

\* Lines 25-33: what getCached(key) returns, and the cache it leaves.
GetCachedValue(c, key) ==
    IF ~c[key].present THEN Null
    ELSE IF Expired(c[key]) THEN Null
    ELSE c[key].data

GetCachedCache(c, key) ==
    IF c[key].present /\ Expired(c[key]) THEN [c EXCEPT ![key] = NoEntry] ELSE c

\* Line 36: the cache after setCache(key, data, ttlMs).
SetCacheCache(c, key, data, ttl) == [c EXCEPT ![key] = Entry(data, ttl)]

\* The keys and the times to live the calls of the cache model pass, and the
\* number of setCache calls; the data of the i-th call is Datum(i).
Datum(i) == [id |-> i]
ProbeKeys == {"yq_T", "live_T"}
Ttls == 1..MaxTtl
MaxSets == 3

\* A call of setCache.
SetCache ==
    /\ cacheSets < MaxSets
    /\ \E key \in ProbeKeys, ttl \in Ttls :
         /\ cache' = SetCacheCache(cache, key, Datum(cacheSets + 1), ttl)
         /\ cacheHist' = [cacheHist EXCEPT ![key] = Entry(Datum(cacheSets + 1), ttl)]
    /\ cacheSets' = cacheSets + 1
    /\ UNCHANGED <<cacheRead, cacheReadOf>>

\* A call of getCached.
GetCached ==
    /\ \E key \in ProbeKeys :
         /\ cacheRead' = [key |-> key, data |-> GetCachedValue(cache, key)]
         /\ cache' = GetCachedCache(cache, key)
         /\ cacheReadOf' = cacheHist[key]
    /\ UNCHANGED <<cacheHist, cacheSets>>

\* Lines 563-565: clearAllCache.
ClearAllCache ==
    /\ cache' = [k \in CacheKeys |-> NoEntry]
    /\ cacheHist' = [k \in CacheKeys |-> NoEntry]
    /\ UNCHANGED <<cacheRead, cacheReadOf, cacheSets>>

\* The entry a tick later.
Older(entry) == IF entry.present THEN [entry EXCEPT !.age = Min2(AgeCap, entry.age + 1)] ELSE entry

\* A tick of the clock: Date.now() is one tick later.
CacheTick ==
    /\ cache' = [k \in CacheKeys |-> Older(cache[k])]
    /\ cacheHist' = [k \in CacheKeys |-> Older(cacheHist[k])]
    /\ UNCHANGED <<cacheRead, cacheReadOf, cacheSets>>

\* The module is loaded: line 23.
KInit ==
    /\ calls = 0
    /\ pIn = PInput(<< >>, << >>, 0)
    /\ pPc = "idle"
    /\ pIter = 0
    /\ pW = << >>
    /\ bestMinVar = [weights |-> << >>, var |-> PInf]
    /\ bestMaxSharpe = [weights |-> << >>, sharpe |-> NInf]
    /\ pResult = NoResult
    /\ fI = 0
    /\ fJ = 0
    /\ bestVol = PInf
    /\ frontier = << >>
    /\ fSeen = {}
    /\ pSeen = {}
    /\ mIn = MCInput(0, << >>, "none", Undef)
    /\ mPc = "idle"
    /\ mP = 1
    /\ samples = << >>
    /\ gPc = "idle"
    /\ gWhich = "x"
    /\ gShape = NaN
    /\ gPending = << >>
    /\ gVal = NaN
    /\ gX = NaN
    /\ allSamples = << >>
    /\ drawn = << >>
    /\ results = << >>
    /\ mStats = NoStats
    /\ mHist = NoHistogram
    /\ isProcessingQueue = FALSE
    /\ rateLimitQueue = << >>
    /\ rlTimers = << >>
    /\ rlSince = MinDelayMs
    /\ rlCalled = 0
    /\ rlStarted = << >>
    /\ rlResponse = << >>
    /\ cache = [k \in CacheKeys |-> NoEntry]
    /\ cacheHist = [k \in CacheKeys |-> NoEntry]
    /\ cacheRead = [key |-> "none", data |-> Null]
    /\ cacheReadOf = NoEntry
    /\ cacheSets = 0
    /\ lCalls = 0
    /\ lPc = "idle"
    /\ lFetch = NoFetches
    /\ lSeen = NoEntry
    /\ lLog = << >>
    /\ wPc = "idle"
    /\ wStarted = 0
    /\ wRetries = MAX_RETRIES
    /\ wAttempt = 0
    /\ wFnCalls = 0
    /\ wLastError = Null
    /\ wWaits = << >>
    /\ wResult = Null
    /\ connectionStatus = "offline"
    /\ statusListeners = << >>
    /\ healthInterval = FALSE
    /\ hChecks = 0
    /\ hInFlight = {}
    /\ hLastDone = "none"
    /\ hWrites = << >>
    /\ hReceived = NothingReceived
    /\ hSubs = 0

KNext ==
    \/ SetCache /\ UNCHANGED besidesCache
    \/ GetCached /\ UNCHANGED besidesCache
    \/ ClearAllCache /\ UNCHANGED besidesCache
    \/ CacheTick /\ UNCHANGED besidesCache

SpecCache == KInit /\ [][KNext]_vars

\* ---- Claims about the cache ----

\* The last getCached call returned a value exactly when setCache stored that
\* value under the key no more than its ttl before, with no clearAllCache
\* in between.
ReadIsFresh ==
    cacheRead.key # "none" =>
        IF cacheRead.data # Null
        THEN /\ cacheReadOf.present
             /\ cacheReadOf.data = cacheRead.data
             /\ cacheReadOf.age <= cacheReadOf.ttl
        ELSE ~(cacheReadOf.present /\ cacheReadOf.age <= cacheReadOf.ttl)

\* A getCached call that returns null leaves no entry under its key.
MissDeletes ==
    (cacheRead' # cacheRead /\ cacheRead'.data = Null) => ~cache'[cacheRead'.key].present

\* C27: getCached(key) returns a value only if setCache stored it under that
\* key no more than its ttl ago with no clearAllCache since; a read after
\* expiry returns null and deletes the entry.
C27_NeverStale == []ReadIsFresh /\ [][MissDeletes]_vars

\* A read of an entry that has expired returned null, after an earlier value
\* under the key was replaced.
C27_Witness ==
    /\ cacheRead.data = Null
    /\ cacheReadOf.present /\ cacheReadOf.age > cacheReadOf.ttl
    /\ cacheReadOf.data = Datum(2)
    /\ ~cache[cacheRead.key].present

\* ------------------------------------------------------------------------
\* Market data service: fetchLiveCompanyData and its fetchers
\* ------------------------------------------------------------------------

\* The calls of fetchLiveCompanyData made, one after the other.
MaxLiveCalls == 2

\* Lines 39 and 41: the times to live of a quote and of a history, in ticks.
TTL_QUOTE == MaxTtl - 1
TTL_HISTORY == MaxTtl

\* Lines 116 and 398: the delays the Yahoo and the Alpha Vantage fetchers pass
\* to rateLimitedFetch (600 and 1200), in ticks.
YahooDelayMs == MinDelayMs - 1
AvDelayMs == MinDelayMs

\* Lines 108, 158 and 391: the cache key of a fetcher; its ttl; its delay.
FetcherKey(f) == IF f = "yq" THEN "yq_T" ELSE IF f = "yh" THEN "yh_T" ELSE "avq_T"
FetcherTtl(f) == IF f = "yh" THEN TTL_HISTORY ELSE TTL_QUOTE
FetcherDelay(f) == IF f = "avq" THEN AvDelayMs ELSE YahooDelayMs

\* The cache, its history and the rate limiter, as one value.
Services == [cache |-> cache, hist |-> cacheHist, rl |-> RateLimiter, fetch |-> lFetch]

\* setCache(key, data, ttl) on that value.
Stored(sv, key, data, ttl) ==
    [sv EXCEPT !.cache = SetCacheCache(@, key, data, ttl), !.hist[key] = Entry(data, ttl)]

\* Lines 107-118, 157-168 and 390-399: a fetcher up to its await.  It returns
\* the cached value when there is one, and calls rateLimitedFetch otherwise.
fetcherBegins(sv, f) ==
    LET cached == GetCachedValue(sv.cache, FetcherKey(f))
    IN IF cached # Null
       THEN [sv EXCEPT !.fetch[f] = [state |-> "done", call |-> 0, value |-> cached]]
       ELSE [sv EXCEPT !.cache = GetCachedCache(@, FetcherKey(f)),
                       !.rl = rateLimitedFetch(@, FetcherDelay(f)),
                       !.fetch[f] = [state |-> "waiting", call |-> sv.rl.called + 1, value |-> Null]]

\* Lines 450-454: the three fetchers are called in turn.
AllBegun(sv) == fetcherBegins(fetcherBegins(fetcherBegins(sv, "yq"), "yh"), "avq")

\* Lines 118-146 (and the like): a fetcher after its await.  It stores and
\* returns the value parsed from a good response, and returns null for a
\* response that is not ok or holds no data, and for a rejected fetch.
fetcherEnds(sv, f, outcome) ==
    LET value == [kind |-> f, call |-> lCalls]
    IN IF outcome = "data"
       THEN [Stored(sv, FetcherKey(f), value, FetcherTtl(f))
                EXCEPT !.fetch[f] = [state |-> "done", call |-> sv.fetch[f].call, value |-> value],
                       !.rl.response[sv.fetch[f].call] = "resolved"]
       ELSE [sv EXCEPT !.fetch[f] = [state |-> "done", call |-> @.call, value |-> Null],
                       !.rl.response[sv.fetch[f].call] =
                           IF outcome = "rejected" THEN "rejected" ELSE "resolved"]

\* Every fetcher has returned.
AllDone(fetch) == \A f \in DOMAIN fetch : fetch[f].state = "done"

\* A result that is cached whatever the quotes were.
resultOfAlwaysLive(fetch) == [source |-> "live", call |-> lCalls]
\* Lines 457-488: the result after Promise.all.
resultOf(fetch) ==
    IF fetch["yq"].value = Null /\ fetch["avq"].value = Null
    THEN [source |-> "fallback", call |-> lCalls]
    ELSE [source |-> "live", call |-> lCalls]

\* The record kept of a call that returned.
LogOf(result, fetch, seen) ==
    [source |-> result.source,
     fetches |-> Cardinality({f \in DOMAIN fetch : fetch[f].call # 0}),
     yahooQuote |-> fetch["yq"].value # Null,
     avQuote |-> fetch["avq"].value # Null,
     seen |-> seen]

\* Lines 457-491: the call continues after Promise.all and returns; a live
\* result is stored under the composite key.
LiveReturns(sv, seen) ==
    LET result == resultOf(sv.fetch)
        after == IF result.source = "live" THEN Stored(sv, "live_T", result, TTL_QUOTE) ELSE sv
    IN /\ cache' = after.cache
       /\ cacheHist' = after.hist
       /\ BecomesRateLimiter(after.rl)
       /\ lFetch' = NoFetches
       /\ lPc' = "idle"
       /\ lLog' = Append(lLog, LogOf(result, sv.fetch, seen))

\* The call stays at its await.
LiveAwaits(sv) ==
    /\ cache' = sv.cache
    /\ cacheHist' = sv.hist
    /\ BecomesRateLimiter(sv.rl)
    /\ lFetch' = sv.fetch
    /\ lPc' = "waiting"
    /\ lLog' = lLog

\* Lines 439-455: a call of fetchLiveCompanyData up to its await, or to its
\* return when it awaits nothing.
FetchLiveCompanyData ==
    /\ lPc = "idle"
    /\ lCalls < MaxLiveCalls
    /\ lCalls' = lCalls + 1
    /\ lSeen' = cacheHist["live_T"]
    /\ LET cached == GetCachedValue(cache, "live_T")
       IN IF cached # Null
          THEN /\ lLog' = Append(lLog, LogOf([cached EXCEPT !.source = "cached"], NoFetches,
                                             cacheHist["live_T"]))
               /\ cacheRead' = [key |-> "live_T", data |-> cached]
               /\ cacheReadOf' = cacheHist["live_T"]
               /\ UNCHANGED <<cache, cacheHist, cacheSets, rlvars, lPc, lFetch>>
          ELSE LET sv == AllBegun([Services EXCEPT !.cache = GetCachedCache(@, "live_T")])
               IN /\ cacheRead' = [key |-> "avq_T", data |-> GetCachedValue(cache, "avq_T")]
                  /\ cacheReadOf' = cacheHist["avq_T"]
                  /\ UNCHANGED cacheSets
                  /\ IF AllDone(sv.fetch)
                     THEN LiveReturns(sv, cacheHist["live_T"])
                     ELSE LiveAwaits(sv)

\* The fetch a fetcher waits for settles, and the fetcher continues; the call
\* continues when it was the last.
FetcherSettles ==
    /\ lPc = "waiting"
    /\ \E f \in DOMAIN lFetch, outcome \in {"data", "nodata", "rejected"} :
         /\ lFetch[f].state = "waiting"
         /\ rlResponse[lFetch[f].call] = "fetching"
         /\ LET sv == fetcherEnds(Services, f, outcome)
            IN IF AllDone(sv.fetch) THEN LiveReturns(sv, lSeen) ELSE LiveAwaits(sv)
    /\ UNCHANGED <<lCalls, lSeen, cacheRead, cacheReadOf, cacheSets>>

\* A timer of the rate limiter expires.
LiveTimerExpires == TimerExpires /\ UNCHANGED <<cvars, lvars>>

\* A tick of the clock; a timer that is due runs before the next tick.
LiveTick == ~TimerDue /\ Tick /\ CacheTick /\ UNCHANGED lvars

\* The module is loaded.
LInit ==
    /\ calls = 0
    /\ pIn = PInput(<< >>, << >>, 0)
    /\ pPc = "idle"
    /\ pIter = 0
    /\ pW = << >>
    /\ bestMinVar = [weights |-> << >>, var |-> PInf]
    /\ bestMaxSharpe = [weights |-> << >>, sharpe |-> NInf]
    /\ pResult = NoResult
    /\ fI = 0
    /\ fJ = 0
    /\ bestVol = PInf
    /\ frontier = << >>
    /\ fSeen = {}
    /\ pSeen = {}
    /\ mIn = MCInput(0, << >>, "none", Undef)
    /\ mPc = "idle"
    /\ mP = 1
    /\ samples = << >>
    /\ gPc = "idle"
    /\ gWhich = "x"
    /\ gShape = NaN
    /\ gPending = << >>
    /\ gVal = NaN
    /\ gX = NaN
    /\ allSamples = << >>
    /\ drawn = << >>
    /\ results = << >>
    /\ mStats = NoStats
    /\ mHist = NoHistogram
    /\ isProcessingQueue = FALSE
    /\ rateLimitQueue = << >>
    /\ rlTimers = << >>
    /\ rlSince = MinDelayMs
    /\ rlCalled = 0
    /\ rlStarted = << >>
    /\ rlResponse = << >>
    /\ cache = [k \in CacheKeys |-> NoEntry]
    /\ cacheHist = [k \in CacheKeys |-> NoEntry]
    /\ cacheRead = [key |-> "none", data |-> Null]
    /\ cacheReadOf = NoEntry
    /\ cacheSets = 0
    /\ lCalls = 0
    /\ lPc = "idle"
    /\ lFetch = NoFetches
    /\ lSeen = NoEntry
    /\ lLog = << >>
    /\ wPc = "idle"
    /\ wStarted = 0
    /\ wRetries = MAX_RETRIES
    /\ wAttempt = 0
    /\ wFnCalls = 0
    /\ wLastError = Null
    /\ wWaits = << >>
    /\ wResult = Null
    /\ connectionStatus = "offline"
    /\ statusListeners = << >>
    /\ healthInterval = FALSE
    /\ hChecks = 0
    /\ hInFlight = {}
    /\ hLastDone = "none"
    /\ hWrites = << >>
    /\ hReceived = NothingReceived
    /\ hSubs = 0

LNext ==
    \/ FetchLiveCompanyData /\ UNCHANGED <<pvars, mvars, calls, wvars, hvars>>
    \/ FetcherSettles /\ UNCHANGED <<pvars, mvars, calls, wvars, hvars>>
    \/ LiveTimerExpires /\ UNCHANGED <<pvars, mvars, calls, wvars, hvars>>
    \/ LiveTick /\ UNCHANGED <<pvars, mvars, calls, wvars, hvars>>

SpecLive == LInit /\ [][LNext]_vars

\* A call that returned 'cached' fetched nothing and read a live result
\* stored no more than `limit` ticks before; any other call returned
\* 'fallback' exactly when neither quote source yielded a quote; and a call
\* after one that returned 'fallback' called rateLimitedFetch for both quotes.
LogWithin(limit) ==
    \A i \in 1..Len(lLog) :
        LET r == lLog[i]
        IN /\ r.source \in {"live", "cached", "fallback"}
           /\ r.source = "cached" =>
                 /\ r.fetches = 0
                 /\ r.seen.present
                 /\ r.seen.data.source = "live"
                 /\ r.seen.age <= limit
           /\ r.source # "cached" => (r.source = "fallback" <=> (~r.yahooQuote /\ ~r.avQuote))
           /\ (i > 1 /\ lLog[i - 1].source = "fallback") =>
                 (r.source # "cached" /\ r.fetches >= 2)

\* The entry under the composite key is written by a call that returns
\* 'live', with what it returns, and by nothing else.
StoredOnlyWhenLive ==
    LET n == Len(lLog')
        wasStored == cacheHist["live_T"]
        isStored == cacheHist'["live_T"]
    IN IF n > Len(lLog) /\ lLog'[n].source = "live"
       THEN /\ isStored = Entry([source |-> "live", call |-> lCalls'], TTL_QUOTE)
            /\ cache'["live_T"] = isStored
       ELSE /\ isStored \in {wasStored, Older(wasStored)}
            /\ cache'["live_T"] \in {cache["live_T"], Older(cache["live_T"]), NoEntry}

\* C28: fetchLiveCompanyData returns source 'fallback' exactly when both
\* quote sources yield nothing, stores a result only when the source is
\* 'live', and returns source 'cached', with no network fetch, only for a live
\* result stored less than the quote TTL ago; a call following a fallback
\* result attempts the live fetch again.
C28_FallbackNeverCached == [](LogWithin(TTL_QUOTE - 1)) /\ [][StoredOnlyWhenLive]_vars

\* C28, with the age the code allows: source 'cached' is returned only for a
\* live result stored no more than the quote TTL ago.
C28_FallbackNeverCachedWithinTtl == [](LogWithin(TTL_QUOTE)) /\ [][StoredOnlyWhenLive]_vars

\* A call returned 'fallback' and stored nothing, and the next one called
\* rateLimitedFetch for both quotes again and returned 'live'.
C28_Witness ==
    /\ Len(lLog) = 2
    /\ lLog[1].source = "fallback"
    /\ lLog[2].source = "live"
    /\ lLog[2].fetches >= 2
    /\ ~lLog[2].seen.present
    /\ cache["live_T"].present

\* A call returned 'cached' for a live result as old as the quote TTL.
C28_CachedAtTtl ==
    /\ Len(lLog) = 2
    /\ lLog[1].source = "live"
    /\ lLog[2].source = "cached"
    /\ lLog[2].seen.age = TTL_QUOTE

\* ------------------------------------------------------------------------
\* API service: withRetry
\* ------------------------------------------------------------------------

\* api.ts line 13.
INITIAL_BACKOFF_MS == 500

\* The calls of withRetry made, one after the other, and the largest retries
\* argument passed.
MaxWithRetryCalls == 3
MaxRetriesArg == 3

\* A backoff that does not grow.
BackoffConstant(attempt) == INITIAL_BACKOFF_MS
\* Line 71: INITIAL_BACKOFF_MS * Math.pow(2, attempt).
Backoff(attempt) == INITIAL_BACKOFF_MS * Pow2(attempt)

\* Line 68: what fn threw, when it is an Error, and a new Error made of it
\* otherwise.
AsError(e) == IF e.isError THEN e ELSE [e EXCEPT !.isError = TRUE, !.wrapped = TRUE]

\* Lines 65-66 and 75: the test of the loop with attempt = a.  fn is called
\* when it holds, and lastError is thrown when it does not.
LoopTest(a, retries, lastError) ==
    IF a <= retries
    THEN /\ wPc' = "calling"
         /\ wFnCalls' = wFnCalls + 1
         /\ wResult' = Null
    ELSE /\ wPc' = "threw"
         /\ wFnCalls' = wFnCalls
         /\ wResult' = [kind |-> "error", of |-> lastError]

\* Lines 63-66: withRetry(fn, retries) is called, with retries or without.
WithRetry ==
    /\ wPc \in {"idle", "returned", "threw"}
    /\ wStarted < MaxWithRetryCalls
    /\ wStarted' = wStarted + 1
    /\ \E given \in BOOLEAN, r \in 0..MaxRetriesArg :
         LET retries == IF given THEN r ELSE MAX_RETRIES
         IN /\ wRetries' = retries
            /\ wAttempt' = 0
            /\ wLastError' = Null
            /\ wWaits' = << >>
            /\ IF 0 <= retries
               THEN /\ wPc' = "calling"
                    /\ wFnCalls' = 1
                    /\ wResult' = Null
               ELSE /\ wPc' = "threw"
                    /\ wFnCalls' = 0
                    /\ wResult' = [kind |-> "error", of |-> Null]

\* Line 66: the promise of fn is fulfilled, and withRetry returns its value.
FnFulfils ==
    /\ wPc = "calling"
    /\ wPc' = "returned"
    /\ wResult' = [kind |-> "value", of |-> wAttempt]
    /\ UNCHANGED <<wStarted, wRetries, wAttempt, wFnCalls, wLastError, wWaits>>

\* Lines 67-73: the promise of fn is rejected.  The error is kept, and a
\* timer is set unless this was the last attempt.
FnRejects ==
    /\ wPc = "calling"
    /\ \E isError \in BOOLEAN :
         LET lastError == AsError([attempt |-> wAttempt, isError |-> isError, wrapped |-> FALSE])
         IN /\ wLastError' = lastError
            /\ IF wAttempt < wRetries
               THEN /\ wPc' = "backoff"
                    /\ wWaits' = Append(wWaits, Backoff(wAttempt))
                    /\ UNCHANGED <<wAttempt, wFnCalls, wResult>>
               ELSE /\ wAttempt' = wAttempt + 1
                    /\ wWaits' = wWaits
                    /\ LoopTest(wAttempt + 1, wRetries, lastError)
    /\ UNCHANGED <<wStarted, wRetries>>

\* Line 71: the timer expires, and the loop goes on.
BackoffElapses ==
    /\ wPc = "backoff"
    /\ wAttempt' = wAttempt + 1
    /\ LoopTest(wAttempt + 1, wRetries, wLastError)
    /\ UNCHANGED <<wStarted, wRetries, wLastError, wWaits>>

\* The module is loaded.
WInit ==
    /\ calls = 0
    /\ pIn = PInput(<< >>, << >>, 0)
    /\ pPc = "idle"
    /\ pIter = 0
    /\ pW = << >>
    /\ bestMinVar = [weights |-> << >>, var |-> PInf]
    /\ bestMaxSharpe = [weights |-> << >>, sharpe |-> NInf]
    /\ pResult = NoResult
    /\ fI = 0
    /\ fJ = 0
    /\ bestVol = PInf
    /\ frontier = << >>
    /\ fSeen = {}
    /\ pSeen = {}
    /\ mIn = MCInput(0, << >>, "none", Undef)
    /\ mPc = "idle"
    /\ mP = 1
    /\ samples = << >>
    /\ gPc = "idle"
    /\ gWhich = "x"
    /\ gShape = NaN
    /\ gPending = << >>
    /\ gVal = NaN
    /\ gX = NaN
    /\ allSamples = << >>
    /\ drawn = << >>
    /\ results = << >>
    /\ mStats = NoStats
    /\ mHist = NoHistogram
    /\ wPc = "idle"
    /\ isProcessingQueue = FALSE
    /\ rateLimitQueue = << >>
    /\ rlTimers = << >>
    /\ rlSince = MinDelayMs
    /\ rlCalled = 0
    /\ rlStarted = << >>
    /\ rlResponse = << >>
    /\ cache = [k \in CacheKeys |-> NoEntry]
    /\ cacheHist = [k \in CacheKeys |-> NoEntry]
    /\ cacheRead = [key |-> "none", data |-> Null]
    /\ cacheReadOf = NoEntry
    /\ cacheSets = 0
    /\ lCalls = 0
    /\ lPc = "idle"
    /\ lFetch = NoFetches
    /\ lSeen = NoEntry
    /\ lLog = << >>
    /\ wStarted = 0
    /\ wRetries = MAX_RETRIES
    /\ wAttempt = 0
    /\ wFnCalls = 0
    /\ wLastError = Null
    /\ wWaits = << >>
    /\ wResult = Null
    /\ connectionStatus = "offline"
    /\ statusListeners = << >>
    /\ healthInterval = FALSE
    /\ hChecks = 0
    /\ hInFlight = {}
    /\ hLastDone = "none"
    /\ hWrites = << >>
    /\ hReceived = NothingReceived
    /\ hSubs = 0

WNext ==
    \/ WithRetry /\ UNCHANGED besidesRetry
    \/ FnFulfils /\ UNCHANGED besidesRetry
    \/ FnRejects /\ UNCHANGED besidesRetry
    \/ BackoffElapses /\ UNCHANGED besidesRetry

SpecRetry == WInit /\ [][WNext]_vars

\* The delays waited are 500 * 2^attempt for attempt = 0, 1, ...
WaitsDouble == \A i \in 1..Len(wWaits) : wWaits[i] = 500 * Pow2(i - 1)

\* fn has been called at most retries + 1 times, and once more than the
\* number of delays waited, except during a delay.
AttemptsBounded ==
    wPc # "idle" =>
        /\ wFnCalls <= wRetries + 1
        /\ (wRetries = MAX_RETRIES => wFnCalls <= 3)
        /\ Len(wWaits) = IF wPc = "backoff" THEN wFnCalls ELSE wFnCalls - 1

\* A value returned is that of the last call of fn made; an error is thrown
\* after retries + 1 calls and is the one of the last call.
OutcomeOfLastAttempt ==
    /\ wPc = "returned" => (wResult.kind = "value" /\ wResult.of = wFnCalls - 1)
    /\ wPc = "threw" =>
          /\ wFnCalls = wRetries + 1
          /\ wResult.kind = "error"
          /\ wResult.of # Null
          /\ wResult.of.attempt = wRetries

\* A call that has returned or thrown calls fn no more and waits no more.
NoAttemptAfterEnd ==
    (wPc \in {"returned", "threw"} /\ wStarted' = wStarted) =>
        UNCHANGED <<wPc, wFnCalls, wWaits, wResult>>

\* C29: withRetry(fn, retries) calls fn at most retries + 1 times (3 by
\* default), returns the first successful result without any further
\* attempt, waits 500 * 2^attempt ms after each failed attempt except the
\* last, and throws the error of the last attempt when every attempt fails.
C29_RetryBounded ==
    /\ [](WaitsDouble /\ AttemptsBounded /\ OutcomeOfLastAttempt)
    /\ [][NoAttemptAfterEnd]_vars

\* The second call, made with the default, failed three times, waited 500
\* and 1000 ms and threw the error of its third attempt.
C29_Witness ==
    /\ wStarted = 2
    /\ wPc = "threw"
    /\ wRetries = MAX_RETRIES
    /\ wFnCalls = 3
    /\ wWaits = <<500, 1000>>
    /\ wResult.of.attempt = 2

\* ------------------------------------------------------------------------
\* API service: connection status and health check
\* ------------------------------------------------------------------------

\* The calls of checkConnection and of onStatusChange made.
MaxChecks == 3
MaxSubscriptions == 2

\* The elements of a sequence.
Range(seq) == {seq[i] : i \in 1..Len(seq)}

\* Line 35: statusListeners.forEach(fn => fn(s)), from the i-th listener on;
\* each listener records the write it is called with.
RECURSIVE forEach(_, _, _, _)
forEach(listeners, i, write, received) ==
    IF i > Len(listeners) THEN received
    ELSE forEach(listeners, i + 1, write,
                 [received EXCEPT ![listeners[i]] = Append(@, write)])

\* A setStatus that calls the first listener only.
setStatusFirstOnly(s) ==
    /\ connectionStatus' = s
    /\ hWrites' = Append(hWrites, [s |-> s, to |-> Range(statusListeners)])
    /\ hReceived' = IF statusListeners = << >> THEN hReceived
                    ELSE [hReceived EXCEPT ![statusListeners[1]] = Append(@, Len(hWrites) + 1)]
\* Lines 33-36: setStatus.
setStatus(s) ==
    /\ connectionStatus' = s
    /\ hWrites' = Append(hWrites, [s |-> s, to |-> Range(statusListeners)])
    /\ hReceived' = forEach(statusListeners, 1, Len(hWrites) + 1, hReceived)

\* Lines 39-41: checkConnection up to its await.
checkConnection ==
    /\ hChecks < MaxChecks
    /\ setStatus("checking")
    /\ hChecks' = hChecks + 1
    /\ hInFlight' = hInFlight \cup {hChecks + 1}
    /\ UNCHANGED <<statusListeners, hLastDone, hSubs>>

\* Line 115: healthCheck calls checkConnection.
CheckConnection == checkConnection /\ UNCHANGED healthInterval

\* Lines 41-47: the response of a check arrives, or its request fails.
CheckSettles ==
    /\ \E c \in hInFlight, outcome \in {"online", "offline"} :
         /\ setStatus(outcome)
         /\ hInFlight' = hInFlight \ {c}
         /\ hLastDone' = outcome
    /\ UNCHANGED <<statusListeners, healthInterval, hChecks, hSubs>>

\* Lines 53-57: startHealthCheck.
StartHealthCheck ==
    /\ ~healthInterval
    /\ checkConnection
    /\ healthInterval' = TRUE

\* Line 56: the interval timer fires.
IntervalFires ==
    /\ healthInterval
    /\ checkConnection
    /\ UNCHANGED healthInterval

\* Lines 58-60: stopHealthCheck.
StopHealthCheck ==
    /\ healthInterval
    /\ healthInterval' = FALSE
    /\ UNCHANGED <<connectionStatus, statusListeners, hChecks, hInFlight, hLastDone,
                   hWrites, hReceived, hSubs>>

\* Lines 28-29: onStatusChange(fn).
OnStatusChange ==
    /\ hSubs < MaxSubscriptions
    /\ hSubs' = hSubs + 1
    /\ \E fn \in ListenerIds : statusListeners' = Append(statusListeners, fn)
    /\ UNCHANGED <<connectionStatus, healthInterval, hChecks, hInFlight, hLastDone,
                   hWrites, hReceived>>

\* Line 30: the function onStatusChange(fn) returned is called.
Unsubscribe ==
    /\ \E fn \in Range(statusListeners) :
         statusListeners' = SelectSeq(statusListeners, LAMBDA l : l # fn)
    /\ UNCHANGED <<connectionStatus, healthInterval, hChecks, hInFlight, hLastDone,
                   hWrites, hReceived, hSubs>>

\* The module is loaded: lines 24-25 and 52.
HInit ==
    /\ calls = 0
    /\ pIn = PInput(<< >>, << >>, 0)
    /\ pPc = "idle"
    /\ pIter = 0
    /\ pW = << >>
    /\ bestMinVar = [weights |-> << >>, var |-> PInf]
    /\ bestMaxSharpe = [weights |-> << >>, sharpe |-> NInf]
    /\ pResult = NoResult
    /\ fI = 0
    /\ fJ = 0
    /\ bestVol = PInf
    /\ frontier = << >>
    /\ fSeen = {}
    /\ pSeen = {}
    /\ mIn = MCInput(0, << >>, "none", Undef)
    /\ mPc = "idle"
    /\ mP = 1
    /\ samples = << >>
    /\ gPc = "idle"
    /\ gWhich = "x"
    /\ gShape = NaN
    /\ gPending = << >>
    /\ gVal = NaN
    /\ gX = NaN
    /\ allSamples = << >>
    /\ drawn = << >>
    /\ results = << >>
    /\ mStats = NoStats
    /\ mHist = NoHistogram
    /\ connectionStatus = "offline"
    /\ isProcessingQueue = FALSE
    /\ rateLimitQueue = << >>
    /\ rlTimers = << >>
    /\ rlSince = MinDelayMs
    /\ rlCalled = 0
    /\ rlStarted = << >>
    /\ rlResponse = << >>
    /\ cache = [k \in CacheKeys |-> NoEntry]
    /\ cacheHist = [k \in CacheKeys |-> NoEntry]
    /\ cacheRead = [key |-> "none", data |-> Null]
    /\ cacheReadOf = NoEntry
    /\ cacheSets = 0
    /\ lCalls = 0
    /\ lPc = "idle"
    /\ lFetch = NoFetches
    /\ lSeen = NoEntry
    /\ lLog = << >>
    /\ wPc = "idle"
    /\ wStarted = 0
    /\ wRetries = MAX_RETRIES
    /\ wAttempt = 0
    /\ wFnCalls = 0
    /\ wLastError = Null
    /\ wWaits = << >>
    /\ wResult = Null
    /\ statusListeners = << >>
    /\ healthInterval = FALSE
    /\ hChecks = 0
    /\ hInFlight = {}
    /\ hLastDone = "none"
    /\ hWrites = << >>
    /\ hReceived = NothingReceived
    /\ hSubs = 0

HNext ==
    \/ CheckConnection /\ UNCHANGED besidesStatus
    \/ CheckSettles /\ UNCHANGED besidesStatus
    \/ StartHealthCheck /\ UNCHANGED besidesStatus
    \/ IntervalFires /\ UNCHANGED besidesStatus
    \/ StopHealthCheck /\ UNCHANGED besidesStatus
    \/ OnStatusChange /\ UNCHANGED besidesStatus
    \/ Unsubscribe /\ UNCHANGED besidesStatus

SpecStatus == HInit /\ [][HNext]_vars

\* The status is 'checking' only while a check is in flight.
CheckingWhileInFlight == connectionStatus = "checking" => hInFlight # {}

\* With every check made completed, the status is the outcome of the one
\* that completed last.
SettledIsLastOutcome ==
    (hChecks > 0 /\ hInFlight = {}) =>
        /\ connectionStatus \in {"online", "offline"}
        /\ connectionStatus = hLastDone

\* The status is what was written last.
StatusIsLastWrite ==
    hWrites # << >> => connectionStatus = hWrites[Len(hWrites)].s

\* A listener was called with the writes made while it was registered, with
\* no other, and in the order of the writes.
DeliveredInOrder ==
    \A l \in ListenerIds :
        /\ \A k \in 1..Len(hWrites) : (l \in hWrites[k].to) <=> (k \in Range(hReceived[l]))
        /\ \A i, j \in 1..Len(hReceived[l]) : i < j => hReceived[l][i] <= hReceived[l][j]

====
